---------------------------- MODULE Spec2Model ----------------------------
(***************************************************************************)
(* A model of SceneModerator.runSceneWithAgents                           *)
(* (src/src/moderator/scene-moderator.ts): configuration validation, the  *)
(* beat loop with its parallel fan-out to the character agents, the       *)
(* Promise.allSettled fan-in, the timestamp sort, the silent filter, the  *)
(* transcript append, the completion check and the Scene Result.          *)
(*                                                                         *)
(* The character agents are the environment: an invocation of respondTo   *)
(* either resolves with a CharacterResponse (a parsed action and a        *)
(* timestamp of the agent's choosing), rejects, or never settles.         *)
(*                                                                         *)
(* The second part models parseResponse (response-parser.ts): the strict   *)
(* bracket parse, the keyword salvage and the empty-input fallback, on raw *)
(* replies that are sequences of symbols.                                  *)
(*                                                                         *)
(* The third part runs the moderator with MockCharacterAgent agents        *)
(* (mock-character-agent.ts), whose replies come from a queue and go       *)
(* through parseResponse, and with TaskCharacterAgent agents               *)
(* (task-character-agent.ts), whose replies are the trimmed text of the    *)
(* model behind them; the fourth models writeSceneOutputs                  *)
(* (file-writer.ts) on a disk of directories and files.                    *)
(***************************************************************************)
EXTENDS Integers, Sequences, FiniteSets, TLC

\* ------------------------------------------------------------------ bounds

\* A run of the model issues at most MaxCalls respondTo invocations:
\* Len(agents) * maxBeats <= MaxCalls for every configuration Init draws.
MaxCalls == 4

\* A raw reply handed to the parser has at most MaxFields fields in its
\* bracket body.
MaxFields == 2

\* The writer is called at most MaxWrites times on the same disk.
MaxWrites == 2

\* -------------------------------------------------------- program constants

\* config.maxBeats ?? 50
DefaultMaxBeats == 50

\* transcript.slice(-10)
RecentWindow == 10

\* ------------------------------------------------------------------- values

\* An absent moderatorNote, initialSpeaker or validation error.
Null == "null"

\* An undefined name, prompt or characters reference; defined ones are
\* sequences (of characters, of agent names).
Undefined == <<"undefined">>

\* Agent names, by position in the agents list handed to runSceneWithAgents.
Roster == <<"alice", "bob", "charlie", "dave", "erin", "frank", "grace", "heidi">>

\* The timestamps a reply may carry: an earlier and a later millisecond, so
\* that replies of one beat can tie or differ either way.
Timestamps == {1000, 1001}

\* ParsedResponse.action
ParsedActions == {"speak", "interrupt", "silent", "react"}

\* Strings of the configuration are sequences of characters; " " is whitespace.
Whitespace == {" ", "\t", "\n"}

NameChoices == {Undefined, <<>>, <<" ">>, <<" ", "s">>}

PromptChoices == {Undefined, <<>>, <<" ">>, <<"p">>}

RECURSIVE TrimStart(_)
TrimStart(s) ==
    IF s # <<>> /\ Head(s) \in Whitespace THEN TrimStart(Tail(s)) ELSE s

RECURSIVE TrimEnd(_)
TrimEnd(s) ==
    IF s # <<>> /\ s[Len(s)] \in Whitespace
    THEN TrimEnd(SubSeq(s, 1, Len(s) - 1))
    ELSE s

\* String.prototype.trim
Trim(s) == TrimEnd(TrimStart(s))

\* JavaScript falsiness of an optional string or array reference:
\* null/undefined and "" are falsy, [] is truthy.
FalsyString(s) == s = Undefined \/ s = <<>>

Max(a, b) == IF a >= b THEN a ELSE b

\* -------------------------------------------------------------------- state

VARIABLES
    pc,          \* where runSceneWithAgents is
    config,      \* the SceneConfig argument
    agents,      \* the agents argument, as the sequence of their names
    transcript,  \* const transcript: TranscriptEntry[]
    beat,        \* let beat
    update,      \* const update of the current iteration
    calls,       \* the per-agent promises of collectResponses
    received,    \* per agent: the SceneUpdate its last respondTo call was given
    callCount,   \* per agent: the number of respondTo invocations
    origin,      \* history: for each transcript entry, the reply it was made from
    result,      \* the value the returned promise resolves with
    signalled,   \* history: shouldComplete has resolved with true
    raw,         \* the argument of a parseResponse call
    parsed,      \* what the call returned: <<>> before it returns
    responseQueue,  \* per agent: the replies a MockCharacterAgent was built with
    disk,        \* the files under the output directories, by path
    writer       \* the writeSceneOutputs call: its arguments and position

vars == <<pc, config, agents, transcript, beat, update, calls, received,
          callCount, origin, result, signalled, raw, parsed,
                   responseQueue, disk, writer>>

\* ---------------------------------------------------------- validateConfig


\* Mutant of validateConfig: the characters check is left out.
validateConfigNoCharacters(c) ==
    IF FalsyString(c.name) \/ Trim(c.name) = <<>>
    THEN [valid |-> FALSE, error |-> "Scene name is required"]
    ELSE IF FalsyString(c.prompt) \/ Trim(c.prompt) = <<>>
    THEN [valid |-> FALSE, error |-> "Scene prompt is required"]
    ELSE [valid |-> TRUE, error |-> Null]

\* Mutant of validateConfig: a beat limit that is not positive is rejected.
validateConfigPositiveBeats(c) ==
    IF FalsyString(c.name) \/ Trim(c.name) = <<>>
    THEN [valid |-> FALSE, error |-> "Scene name is required"]
    ELSE IF FalsyString(c.prompt) \/ Trim(c.prompt) = <<>>
    THEN [valid |-> FALSE, error |-> "Scene prompt is required"]
    ELSE IF c.characters = Undefined \/ Len(c.characters) = 0
    THEN [valid |-> FALSE, error |-> "At least one character is required"]
    ELSE IF \E k \in c.maxBeats : k <= 0
    THEN [valid |-> FALSE, error |-> "maxBeats must be positive"]
    ELSE [valid |-> TRUE, error |-> Null]

\* validateConfig: name, prompt and characters, in this order
validateConfig(c) ==
    IF FalsyString(c.name) \/ Trim(c.name) = <<>>
    THEN [valid |-> FALSE, error |-> "Scene name is required"]
    ELSE IF FalsyString(c.prompt) \/ Trim(c.prompt) = <<>>
    THEN [valid |-> FALSE, error |-> "Scene prompt is required"]
    ELSE IF c.characters = Undefined \/ Len(c.characters) = 0
    THEN [valid |-> FALSE, error |-> "At least one character is required"]
    ELSE [valid |-> TRUE, error |-> Null]

\* Mutant of EffectiveMaxBeats: an omitted maxBeats is no beats at all.
EffectiveMaxBeatsNoDefault(c) ==
    IF c.maxBeats = {} THEN 0 ELSE CHOOSE k \in c.maxBeats : TRUE

\* const maxBeats = config.maxBeats ?? 50
\* (the optional maxBeats is the empty set when omitted, else {k})
EffectiveMaxBeats(c) ==
    IF c.maxBeats = {} THEN DefaultMaxBeats ELSE CHOOSE k \in c.maxBeats : TRUE


\* ------------------------------------------------------------ pure helpers

\* One representative ParsedResponse per action; the moderator branches on
\* the action alone and copies the other fields through.  Strings are
\* sequences of symbols and an optional field is <<>> when absent and <<v>>
\* when set, as parseResponse returns them.
ParsedOf(a) ==
    CASE a = "speak" ->
           [action |-> a, target |-> <<<<"bob">>>>, tone |-> <<"angry">>,
            content |-> <<"Why?">>, nonverbal |-> <<>>,
            interruptAfter |-> <<>>, warning |-> <<>>]
      [] a = "interrupt" ->
           [action |-> a, target |-> <<>>, tone |-> <<"furious">>,
            content |-> <<"No!">>, nonverbal |-> <<>>,
            interruptAfter |-> <<<<"I", " ", "think">>>>, warning |-> <<>>]
      [] a = "react" ->
           [action |-> a, target |-> <<>>, tone |-> <<"nervous">>,
            content |-> <<>>, nonverbal |-> <<<<"fidgets">>>>,
            interruptAfter |-> <<>>, warning |-> <<>>]
      [] OTHER ->
           [action |-> a, target |-> <<>>, tone |-> <<>>,
            content |-> <<>>, nonverbal |-> <<<<"crosses", " ", "arms">>>>,
            interruptAfter |-> <<>>, warning |-> <<>>]

\* entry.target ? ... : '': an optional string that is set and not ''
TruthyField(f) == f # <<>> /\ f[1] # <<>>

\* The line formatTranscript renders for one entry: the interpolated parts,
\* in order ('' is <<>>).  Beat, timestamp and action are not rendered.
formatEntry(e) ==
    IF e.type = "dialog"
    THEN <<e.speaker,
           IF TruthyField(e.target) THEN e.target[1] ELSE <<>>,
           e.tone,
           IF TruthyField(e.nonverbal) THEN e.nonverbal[1] ELSE <<>>,
           e.content>>
    ELSE IF e.type = "event"
    THEN <<"EVENT", e.description>>
    ELSE <<"SYSTEM", e.message>>

\* entries.map(...).join('\n'): the sequence of rendered lines ('' when empty)
formatTranscript(entries) ==
    [i \in 1..Len(entries) |-> formatEntry(entries[i])]

\* Mutant of SliceLast: the window is the first n entries.
SliceFirst(s, n) ==
    IF Len(s) <= n THEN s ELSE SubSeq(s, 1, n)

\* Array.prototype.slice(-n)
SliceLast(s, n) ==
    IF Len(s) <= n THEN s ELSE SubSeq(s, Len(s) - n + 1, Len(s))

\* Mutant of generateModeratorNote: the thresholds are beat counts, as if
\* every scene had ten beats.
generateModeratorNoteAbsolute(currentBeat, maxBeats) ==
    IF currentBeat > 8
    THEN "Scene approaching conclusion. Begin wrapping up your character arc."
    ELSE IF currentBeat > 6
    THEN "Scene past midpoint. Consider moving toward resolution."
    ELSE Null

\* currentBeat / maxBeats > 0.8, > 0.6 (maxBeats > 0 inside the loop)
generateModeratorNote(currentBeat, maxBeats) ==
    IF 10 * currentBeat > 8 * maxBeats
    THEN "Scene approaching conclusion. Begin wrapping up your character arc."
    ELSE IF 10 * currentBeat > 6 * maxBeats
    THEN "Scene past midpoint. Consider moving toward resolution."
    ELSE Null

\* Mutant of createUpdate: the rendered transcript opens with a line that
\* names the beat.
createUpdateBeatHeader(c, t, b) ==
    [sceneContext  |-> c.prompt,
     transcript    |-> <<<<"BEAT", b>>>> \o
                       formatTranscript(SliceLast(t, RecentWindow)),
     lastEvent     |-> IF Len(t) = 0 THEN <<>> ELSE <<t[Len(t)]>>,
     beat          |-> b,
     moderatorNote |-> generateModeratorNote(b, EffectiveMaxBeats(c))]

\* lastEvent is <<>> for null, <<entry>> otherwise
createUpdate(c, t, b) ==
    [sceneContext  |-> c.prompt,
     transcript    |-> formatTranscript(SliceLast(t, RecentWindow)),
     lastEvent     |-> IF Len(t) = 0 THEN <<>> ELSE <<t[Len(t)]>>,
     beat          |-> b,
     moderatorNote |-> generateModeratorNote(b, EffectiveMaxBeats(c))]

\* Mutant of SortByTimestamp: an unstable sort that turns equal elements
\* round.
SortByTimestampTiesReversed(s) ==
    LET rank(i) ==
            Cardinality({j \in 1..Len(s) :
                \/ s[j].timestamp - s[i].timestamp < 0
                \/ s[j].timestamp - s[i].timestamp = 0 /\ j > i}) + 1
    IN  [p \in 1..Len(s) |-> s[CHOOSE i \in 1..Len(s) : rank(i) = p]]

\* Mutant of SortByTimestamp: the replies stay in agents-list order.
SortByTimestampSkipped(s) == s

\* .sort((a, b) => a.timestamp - b.timestamp).  Array.prototype.sort is
\* stable: element i lands behind every element the comparator puts before
\* it and behind the equal ones that precede it in the input.
SortByTimestamp(s) ==
    LET rank(i) ==
            Cardinality({j \in 1..Len(s) :
                \/ s[j].timestamp - s[i].timestamp < 0
                \/ s[j].timestamp - s[i].timestamp = 0 /\ j < i}) + 1
    IN  [p \in 1..Len(s) |-> s[CHOOSE i \in 1..Len(s) : rank(i) = p]]

\* results.filter(r => r.status === 'fulfilled').map(r => r.value)
FulfilledValues(cs) ==
    LET fulfilled == SelectSeq(cs, LAMBDA r : r.status = "fulfilled")
    IN  [i \in 1..Len(fulfilled) |-> fulfilled[i].value[1]]

\* What collectResponses returns once every promise has settled.
collectResponses(cs) == SortByTimestamp(FulfilledValues(cs))


\* Mutant of FilterDialog: a reply the parser warned about is dropped too.
FilterDialogDropsWarned(rs) ==
    SelectSeq(rs, LAMBDA r : r.parsed.action # "silent"
                             /\ r.parsed.warning = <<>>)

\* Mutant of FilterDialog: the silent filter is left out.
FilterDialogKeepsSilent(rs) == rs

\* responses.filter(r => r.parsed.action !== 'silent')
FilterDialog(rs) == SelectSeq(rs, LAMBDA r : r.parsed.action # "silent")

\* Mutant of responseToEntry: the entry is tagged with the beat after the
\* one that solicited the reply.
responseToEntryNextBeat(response, speaker, b) ==
    [type      |-> "dialog",
     speaker   |-> speaker,
     action    |-> IF response.parsed.action = "interrupt" THEN "interrupt"
                   ELSE IF response.parsed.action = "react" THEN "react"
                   ELSE "speak",
     target    |-> response.parsed.target,
     tone      |-> response.parsed.tone,
     content   |-> response.parsed.content,
     nonverbal |-> response.parsed.nonverbal,
     beat      |-> b + 1,
     timestamp |-> response.timestamp]

responseToEntry(response, speaker, b) ==
    [type      |-> "dialog",
     speaker   |-> speaker,
     action    |-> IF response.parsed.action = "interrupt" THEN "interrupt"
                   ELSE IF response.parsed.action = "react" THEN "react"
                   ELSE "speak",
     target    |-> response.parsed.target,
     tone      |-> response.parsed.tone,
     content   |-> response.parsed.content,
     nonverbal |-> response.parsed.nonverbal,
     beat      |-> b,
     timestamp |-> response.timestamp]

\* agents.find(a => a.name === response.agentName): <<>> when there is none
FindAgent(as, name) ==
    IF \E i \in 1..Len(as) : as[i] = name
    THEN <<as[CHOOSE i \in 1..Len(as) :
                as[i] = name /\ \A j \in 1..(i - 1) : as[j] # name]>>
    ELSE <<>>

\* Mutant of PushEntries: every reply is pushed twice.
PushEntriesTwice(t, rs, as, b) ==
    LET found == SelectSeq(rs, LAMBDA r : FindAgent(as, r.agentName) # <<>>)
        entries == [i \in 1..Len(found) |->
                      responseToEntry(found[i],
                                      FindAgent(as, found[i].agentName)[1], b)]
    IN  t \o entries \o entries

\* Mutant of PushEntries: after the push the whole transcript is sorted by
\* timestamp again.
PushEntriesResorted(t, rs, as, b) ==
    LET found == SelectSeq(rs, LAMBDA r : FindAgent(as, r.agentName) # <<>>)
    IN  SortByTimestamp(
          t \o [i \in 1..Len(found) |->
                  responseToEntry(found[i],
                                  FindAgent(as, found[i].agentName)[1], b)])

\* for (const response of dialogResponses) { ... transcript.push(...) }
PushEntries(t, rs, as, b) ==
    LET found == SelectSeq(rs, LAMBDA r : FindAgent(as, r.agentName) # <<>>)
    IN  t \o [i \in 1..Len(found) |->
                responseToEntry(found[i],
                                FindAgent(as, found[i].agentName)[1], b)]

\* Mutant of shouldComplete: a check that signals once a beat has dialog.
shouldCompleteOnDialog(t, c, b) == \E k \in 1..Len(t) : t[k].beat = b

\* shouldComplete: the shipped completion check
shouldComplete(t, c, b) == FALSE

\* const completionReason = beat >= maxBeats ? 'max_beats' : 'goal_achieved'
CompletionReason(b, maxBeats) ==
    IF b >= maxBeats THEN "max_beats" ELSE "goal_achieved"


\* Mutant of GoalAchieved: every finished run counts as goal-achieving.
GoalAchievedAlways(reason) == TRUE

\* const goalAchieved = completionReason === 'goal_achieved'
GoalAchieved(reason) == reason = "goal_achieved"

\* createMetadata (duration and timestamp are wall-clock values, left out);
\* the optional costs and errors fields are never set.
createMetadata(c, totalBeats, completionReason, goalAchieved) ==
    [name             |-> c.name,
     totalBeats       |-> totalBeats,
     characterCount   |-> Len(c.characters),
     goalAchieved     |-> goalAchieved,
     completionReason |-> completionReason,
     characters       |-> c.characters]

\* metadata.errors, [] when the field is absent
MetadataErrors(m) == IF "errors" \in DOMAIN m THEN m.errors ELSE <<>>


\* ------------------------------------------------------------ parseResponse
\* (response-parser.ts)
\*
\* A raw reply is a sequence of symbols: punctuation and whitespace
\* characters, ordinary characters ("x"), and the words the parser looks for
\* ("INTERRUPT", "after", "SILENT", "REACT", "TO:", "TONE:", tone keywords),
\* each word one symbol.  A string literal of the code is the sequence of its
\* symbols: 'neutral' is <<"neutral">>, '' is <<>>.  An optional field of a
\* ParsedResponse is <<>> when absent and <<v>> when set.

\* ["']
Quotes == {"\"", "'"}

MinOf(S) == CHOOSE m \in S : \A x \in S : m <= x

\* String.prototype.indexOf, 1-based; 0 when sub does not occur
IndexOf(s, sub) ==
    LET hits == {i \in 1..(Len(s) - Len(sub) + 1) :
                    SubSeq(s, i, i + Len(sub) - 1) = sub}
    IN  IF hits = {} THEN 0 ELSE MinOf(hits)

\* String.prototype.includes
Includes(s, sub) == IndexOf(s, sub) # 0

\* The end of the longest run of symbols outside stop that starts at i
\* (i - 1 when the run is empty): the greedy [^stop]* from position i.
RunEnd(s, i, stop) ==
    LET bad == {j \in i..Len(s) : s[j] \in stop}
    IN  IF bad = {} THEN Len(s) ELSE MinOf(bad) - 1

\* The end of the whitespace run that starts at i: the greedy \s*.
SpaceEnd(s, i) ==
    LET solid == {j \in i..Len(s) : s[j] \notin Whitespace}
    IN  IF solid = {} THEN Len(s) ELSE MinOf(solid) - 1

\* The capture of /key\s*([^stop]+)/ when the match starts at p, <<>> when
\* there is no match at p.  \s* is greedy; when nothing capturable follows
\* the whitespace, backtracking hands the last whitespace character to the
\* capture group (whitespace is outside stop).
FieldCaptureAt(s, p, key, stop) ==
    IF p > Len(s) \/ s[p] # key THEN <<>>
    ELSE LET w == SpaceEnd(s, p + 1)
         IN  IF w + 1 <= Len(s) /\ s[w + 1] \notin stop
             THEN <<SubSeq(s, w + 1, RunEnd(s, w + 1, stop))>>
             ELSE IF w > p THEN <<SubSeq(s, w, w)>>
             ELSE <<>>

\* s.match(/key\s*([^stop]+)/): the capture of the leftmost match
FieldMatch(s, key, stop) ==
    LET at == {p \in 1..Len(s) : FieldCaptureAt(s, p, key, stop) # <<>>}
    IN  IF at = {} THEN <<>> ELSE FieldCaptureAt(s, MinOf(at), key, stop)

\* The capture of /[delims]([^delims]+)[delims]/ when the opening delimiter
\* is at p, <<>> when there is no match at p.
DelimitedAt(s, p, delims) ==
    IF p > Len(s) \/ s[p] \notin delims THEN <<>>
    ELSE LET e == RunEnd(s, p + 1, delims)
         IN  IF e >= p + 1 /\ e + 1 <= Len(s)
             THEN <<SubSeq(s, p + 1, e)>>
             ELSE <<>>

\* s.match(/[delims]([^delims]+)[delims]/): the capture of the leftmost match
DelimitedMatch(s, delims) ==
    LET at == {p \in 1..Len(s) : DelimitedAt(s, p, delims) # <<>>}
    IN  IF at = {} THEN <<>> ELSE DelimitedAt(s, MinOf(at), delims)

\* 'INTERRUPT after'
InterruptAfter == <<"INTERRUPT", " ", "after">>

\* bracketContent.match(/INTERRUPT after ["']([^"']+)["']/)
InterruptMatch(s) ==
    LET prefix == InterruptAfter \o <<" ">>
        at == {p \in 1..Len(s) :
                 /\ p + Len(prefix) - 1 <= Len(s)
                 /\ SubSeq(s, p, p + Len(prefix) - 1) = prefix
                 /\ DelimitedAt(s, p + Len(prefix), Quotes) # <<>>}
    IN  IF at = {} THEN <<>>
        ELSE DelimitedAt(s, MinOf(at) + Len(prefix), Quotes)

\* raw.match(/^\[(.*?)\]\s*(.*)/s): <<>> when there is no match, else
\* <<[bracketContent, afterBracket]>>.  The lazy group ends at the first "]".
BracketMatch(s) ==
    IF s = <<>> \/ s[1] # "[" \/ ~\E j \in 2..Len(s) : s[j] = "]"
    THEN <<>>
    ELSE LET close == MinOf({j \in 2..Len(s) : s[j] = "]"})
         IN  <<[bracketContent |-> SubSeq(s, 2, close - 1),
                afterBracket   |-> TrimStart(SubSeq(s, close + 1, Len(s)))]>>

\* s.replace(/^["']|["']$/g, '')
StripQuotes(s) ==
    LET a == IF s # <<>> /\ s[1] \in Quotes THEN Tail(s) ELSE s
    IN  IF a # <<>> /\ a[Len(a)] \in Quotes THEN SubSeq(a, 1, Len(a) - 1) ELSE a

\* The two ways a call completes.
Returned(v) == [threw |-> FALSE, value |-> v]

Thrown(message) == [threw |-> TRUE, error |-> message]

\* The warnings of the parser.
WarnEmpty == "Empty or null response"

WarnInterrupt == "INTERRUPT action missing \"after\" phrase"

WarnTone == "Missing required TONE field, defaulted to neutral"

WarnContent == "Expected content for speak/interrupt action"

WarnSalvage == "Failed to parse format, attempting salvage"

\* Mutant of StrictAction: SILENT is looked for ahead of INTERRUPT.
StrictActionSilentFirst(bracketContent) ==
    IF Includes(bracketContent, <<"SILENT">>) THEN "silent"
    ELSE IF Includes(bracketContent, <<"INTERRUPT">>) THEN "interrupt"
    ELSE IF Includes(bracketContent, <<"REACT">>) THEN "react"
    ELSE "speak"

\* Lines 57-75: the action the keywords of the bracket body select.
StrictAction(bracketContent) ==
    IF Includes(bracketContent, <<"INTERRUPT">>) THEN "interrupt"
    ELSE IF Includes(bracketContent, <<"SILENT">>) THEN "silent"
    ELSE IF Includes(bracketContent, <<"REACT">>) THEN "react"
    ELSE "speak"

\* Lines 63-66: INTERRUPT after is there, the quoted phrase is not.
MalformedInterrupt(bracketContent) ==
    /\ Includes(bracketContent, <<"INTERRUPT">>)
    /\ InterruptMatch(bracketContent) = <<>>
    /\ Includes(bracketContent, InterruptAfter)

\* Mutant of ToneWarning: the missing-TONE warning gives way to a warning
\* set before it.
ToneWarningKeepsEarlier(action, toneMatch, warning) ==
    IF toneMatch = <<>> /\ action # "silent" /\ warning = <<>>
    THEN <<WarnTone>> ELSE warning

\* Mutant of ToneWarning: a silent reply without tone is warned about too.
ToneWarningAlways(action, toneMatch, warning) ==
    IF toneMatch = <<>> THEN <<WarnTone>> ELSE warning

\* Lines 85-91: the warning after the tone step.
ToneWarning(action, toneMatch, warning) ==
    IF toneMatch = <<>> /\ action # "silent" THEN <<WarnTone>> ELSE warning

\* strictParse, for a raw reply that is a non-empty string.
strictParse(s) ==
    LET bracketMatch == BracketMatch(s)
    IN  IF bracketMatch = <<>>
        THEN Thrown("No bracket section found")
        ELSE
        LET bracketContent == bracketMatch[1].bracketContent
            afterBracket   == bracketMatch[1].afterBracket
            action         == StrictAction(bracketContent)
            interruptMatch == IF action = "interrupt"
                              THEN InterruptMatch(bracketContent) ELSE <<>>
            warning1       == IF action = "interrupt" /\ interruptMatch = <<>>
                              THEN <<WarnInterrupt>> ELSE <<>>
            targetMatch    == FieldMatch(bracketContent, "TO:", {",", "]"})
            toneMatch      == FieldMatch(bracketContent, "TONE:", {",", "]", "*"})
            tone           == IF toneMatch # <<>> THEN Trim(toneMatch[1])
                              ELSE IF action # "silent" THEN <<"neutral">>
                              ELSE <<>>
            warning2       == ToneWarning(action, toneMatch, warning1)
            nonverbalMatch == DelimitedMatch(bracketContent, {"*"})
            hasContent     == Trim(afterBracket) # <<>>
            warning3       == IF /\ ~hasContent
                                 /\ action \in {"speak", "interrupt"}
                                 /\ warning2 = <<>>
                              THEN <<WarnContent>> ELSE warning2
        IN  IF MalformedInterrupt(bracketContent)
            THEN Thrown("Interrupt phrase not properly formatted")
            ELSE Returned(
                   [action         |-> action,
                    target         |-> IF targetMatch # <<>>
                                       THEN <<Trim(targetMatch[1])>> ELSE <<>>,
                    tone           |-> tone,
                    content        |-> IF hasContent
                                       THEN StripQuotes(Trim(afterBracket))
                                       ELSE <<>>,
                    nonverbal      |-> IF nonverbalMatch # <<>>
                                       THEN <<Trim(nonverbalMatch[1])>> ELSE <<>>,
                    interruptAfter |-> interruptMatch,
                    warning        |-> warning3])

\* Object.entries(toneKeywords), in insertion order
ToneKeywords ==
    <<"angry", "frustrated", "happy", "sad", "nervous", "excited", "calm",
      "surprised", "confused", "worried">>

\* String.prototype.toLowerCase, symbol by symbol
LowerSymbol(c) ==
    CASE c = "ANGRY" -> "angry"
      [] c = "SAD" -> "sad"
      [] c = "INTERRUPT" -> "interrupt"
      [] c = "SILENT" -> "silent"
      [] c = "REACT" -> "react"
      [] c = "TO:" -> "to:"
      [] c = "TONE:" -> "tone:"
      [] OTHER -> c

toLowerCase(s) == [i \in 1..Len(s) |-> LowerSymbol(s[i])]

\* Mutant of SalvageTone: the keyword that comes first in the reply wins.
SalvageToneTextOrder(s) ==
    LET lowerRaw == toLowerCase(s)
        at == {p \in 1..Len(s) :
                 \E k \in 1..Len(ToneKeywords) : lowerRaw[p] = ToneKeywords[k]}
    IN  IF at = {} THEN <<"neutral">> ELSE <<lowerRaw[MinOf(at)]>>

\* Lines 138-144: the first keyword of the vocabulary the reply contains
SalvageTone(s) ==
    LET lowerRaw == toLowerCase(s)
        found == {k \in 1..Len(ToneKeywords) :
                     Includes(lowerRaw, <<ToneKeywords[k]>>)}
    IN  IF found = {} THEN <<"neutral">> ELSE <<ToneKeywords[MinOf(found)]>>

\* salvageParse
salvageParse(s) ==
    LET quoteMatch  == DelimitedMatch(s, Quotes)
        targetMatch == FieldMatch(s, "TO:", {",", "]"})
    IN  [action         |-> "speak",
         target         |-> IF targetMatch # <<>>
                            THEN <<Trim(targetMatch[1])>> ELSE <<>>,
         tone           |-> SalvageTone(s),
         content        |-> IF quoteMatch # <<>> THEN quoteMatch[1] ELSE s,
         nonverbal      |-> <<>>,
         interruptAfter |-> <<>>,
         warning        |-> <<WarnSalvage>>]

\* The result of lines 20-27.
EmptyResponse ==
    [action |-> "silent", target |-> <<>>, tone |-> <<"neutral">>,
     content |-> <<>>, nonverbal |-> <<>>, interruptAfter |-> <<>>,
     warning |-> <<WarnEmpty>>]

\* Mutant of parseResponse: the check for an empty argument is left out, so
\* that an empty reply goes the way of an unparseable one.
parseResponseNoEmptyCheck(s) ==
    LET strict == strictParse(s)
    IN  IF strict.threw THEN Returned(salvageParse(s)) ELSE strict

\* Mutant of parseResponse: the try/catch around strictParse is left out.
parseResponseNoCatch(s) ==
    IF s = Undefined \/ s = <<>>
    THEN Returned(EmptyResponse)
    ELSE strictParse(s)

\* parseResponse: how the call completes for the argument s (Undefined is
\* null or undefined).
parseResponse(s) ==
    IF s = Undefined \/ s = <<>>
    THEN Returned(EmptyResponse)
    ELSE LET strict == strictParse(s)
         IN  IF strict.threw THEN Returned(salvageParse(s)) ELSE strict


\* --------------------------------------------------------------------- Init

N == Len(agents)

AgentIds == 1..N

\* No writeSceneOutputs call is under way.
NoWriter == [pc |-> "idle", calls |-> 0]

\* The promise of an invocation that has not been issued in this run.
NoCall == [status |-> "none", value |-> <<>>]

\* The configurations and agent lists a caller may pass: any name and prompt;
\* characters undefined, empty or naming the agents; an integer maxBeats from
\* -1 up (the default of an omitted maxBeats is beyond the bound); n agents
\* with n * maxBeats <= MaxCalls.
Init ==
    /\ pc = "validate"
    /\ \E n \in 0..MaxCalls, k \in -1..MaxCalls :
         /\ n * Max(k, 0) <= MaxCalls
         /\ agents = SubSeq(Roster, 1, n)
         /\ \E nm \in NameChoices, pr \in PromptChoices :
              \E ch \in {Undefined, <<>>,
                         IF n = 0 THEN <<"alice">> ELSE SubSeq(Roster, 1, n)} :
                 config = [name |-> nm, prompt |-> pr, characters |-> ch,
                           initialSpeaker |-> Null, maxBeats |-> {k}]
    /\ transcript = <<>>
    /\ beat = 0
    /\ update = <<>>
    /\ calls = [i \in AgentIds |-> NoCall]
    /\ received = [i \in AgentIds |-> <<>>]
    /\ callCount = [i \in AgentIds |-> 0]
    /\ origin = <<>>
    /\ result = <<>>
    /\ signalled = FALSE
    /\ raw = <<>>
    /\ parsed = <<>>
    /\ responseQueue = <<>>
    /\ disk = <<>>
    /\ writer = NoWriter

\* ------------------------------------------------------------------ actions

\* Lines 39-57: validation; an invalid configuration returns at once.  The
\* error result's metadata reads config.characters.length, which throws when
\* characters is undefined: the returned promise then rejects.
Validate ==
    /\ pc = "validate"
    /\ LET validation == validateConfig(config)
       IN  IF ~validation.valid
           THEN IF config.characters = Undefined
                THEN /\ pc' = "threw"
                     /\ result' = <<"TypeError">>
                ELSE /\ pc' = "done"
                     /\ result' =
                          [success    |-> FALSE,
                           transcript |-> <<>>,
                           metadata   |-> createMetadata(config, 0, "error", FALSE),
                           outputPath |-> "",
                           error      |-> <<[code |-> "INVALID_CONFIG",
                                             message |-> validation.error]>>]
           ELSE /\ pc' = "loop"
                /\ result' = result
    /\ UNCHANGED <<config, agents, transcript, beat, update, calls, received,
                   callCount, origin,
                   signalled, raw, parsed,
                   responseQueue, disk, writer>>


\* Mutant of LoopGuard: an off-by-one loop condition.
LoopGuardInclusive == beat <= EffectiveMaxBeats(config)

\* while (beat < maxBeats)
LoopGuard == beat < EffectiveMaxBeats(config)

\* Mutant of FanOut: the first beat goes to the initial speaker alone when
\* the configuration names one of the agents.
FanOutInitialSpeakerFirst ==
    /\ pc = "loop"
    /\ LoopGuard
    /\ update' = createUpdate(config, transcript, beat)
    /\ \E invoked \in {IF beat = 0 /\ \E i \in AgentIds :
                                        agents[i] = config.initialSpeaker
                       THEN {i \in AgentIds : agents[i] = config.initialSpeaker}
                       ELSE AgentIds} :
         /\ calls' = [i \in AgentIds |->
                        IF i \in invoked
                        THEN [status |-> "pending", value |-> <<>>]
                        ELSE [status |-> "rejected", value |-> <<>>]]
         /\ received' = [i \in AgentIds |->
                           IF i \in invoked THEN update' ELSE received[i]]
         /\ callCount' = [i \in AgentIds |->
                            IF i \in invoked THEN callCount[i] + 1
                            ELSE callCount[i]]
    /\ pc' = "await"
    /\ UNCHANGED <<config, agents, transcript, beat, origin, result,
                   signalled, raw, parsed,
                   responseQueue, disk, writer>>

\* Mutant of FanOut: the beat index handed to the agents counts from one.
FanOutOneBased ==
    /\ pc = "loop"
    /\ LoopGuard
    /\ update' = createUpdate(config, transcript, beat + 1)
    /\ calls' = [i \in AgentIds |-> [status |-> "pending", value |-> <<>>]]
    /\ received' = [i \in AgentIds |-> update']
    /\ callCount' = [i \in AgentIds |-> callCount[i] + 1]
    /\ pc' = "await"
    /\ UNCHANGED <<config, agents, transcript, beat, origin, result,
                   signalled, raw, parsed,
                   responseQueue, disk, writer>>

\* Mutant of FanOut: the next beat's context is built and sent out as soon
\* as the replies are collected, ahead of the completion check.
FanOutPipelined ==
    /\ pc \in {"loop", "oracle"}
    /\ LoopGuard
    /\ \A i \in AgentIds : callCount[i] <= beat + 1
    /\ update' = createUpdate(config, transcript,
                              IF pc = "loop" THEN beat ELSE beat + 1)
    /\ calls' = [i \in AgentIds |-> [status |-> "pending", value |-> <<>>]]
    /\ received' = [i \in AgentIds |-> update']
    /\ callCount' = [i \in AgentIds |-> callCount[i] + 1]
    /\ pc' = IF pc = "loop" THEN "await" ELSE pc
    /\ UNCHANGED <<config, agents, transcript, beat, origin, result,
                   signalled, raw, parsed,
                   responseQueue, disk, writer>>

\* Lines 60-65 and 157-163: the update is built from the transcript, then
\* agents.map calls every agent's respondTo with it, in one synchronous step;
\* the moderator then waits on Promise.allSettled.
FanOut ==
    /\ pc = "loop"
    /\ LoopGuard
    /\ update' = createUpdate(config, transcript, beat)
    /\ calls' = [i \in AgentIds |-> [status |-> "pending", value |-> <<>>]]
    /\ received' = [i \in AgentIds |-> update']
    /\ callCount' = [i \in AgentIds |-> callCount[i] + 1]
    /\ pc' = "await"
    /\ UNCHANGED <<config, agents, transcript, beat, origin, result,
                   signalled, raw, parsed,
                   responseQueue, disk, writer>>


\* Mutant of Resolve: a reply is pushed to the transcript as it arrives and
\* the agents still pending see a context rebuilt from it.
ResolveLeaky(i) ==
    /\ pc = "await"
    /\ calls[i].status = "pending"
    /\ \E a \in ParsedActions, ts \in Timestamps :
         LET response == [parsed |-> ParsedOf(a), timestamp |-> ts,
                          agentName |-> agents[i]]
         IN  /\ calls' = [calls EXCEPT ![i] =
                            [status |-> "fulfilled", value |-> <<response>>]]
             /\ transcript' =
                  IF a # "silent"
                  THEN Append(transcript, responseToEntry(response, agents[i], beat))
                  ELSE transcript
             /\ origin' =
                  IF a # "silent"
                  THEN Append(origin, [agentName |-> agents[i], action |-> a,
                                       timestamp |-> ts])
                  ELSE origin
    /\ received' = [j \in AgentIds |->
                      IF j # i /\ calls[j].status = "pending"
                      THEN createUpdate(config, transcript', beat)
                      ELSE received[j]]
    /\ UNCHANGED <<pc, config, agents, beat, update, callCount, result,
                   signalled, raw, parsed,
                   responseQueue, disk, writer>>

\* Agent i's respondTo resolves: line 159 adds the agent's name.
Resolve(i) ==
    /\ pc = "await"
    /\ calls[i].status = "pending"
    /\ \E a \in ParsedActions, ts \in Timestamps :
         calls' = [calls EXCEPT ![i] =
                     [status |-> "fulfilled",
                      value  |-> <<[parsed |-> ParsedOf(a), timestamp |-> ts,
                                    agentName |-> agents[i]]>>]]
    /\ UNCHANGED <<pc, config, agents, transcript, beat, update, received,
                   callCount, origin, result,
                   signalled, raw, parsed,
                   responseQueue, disk, writer>>

\* Mutant of Reject: a failed invocation is retried once within its beat.
RejectRetried(i) ==
    /\ pc = "await"
    /\ calls[i].status = "pending"
    /\ IF callCount[i] = beat + 1
       THEN /\ callCount' = [callCount EXCEPT ![i] = callCount[i] + 1]
            /\ calls' = calls
       ELSE /\ callCount' = callCount
            /\ calls' = [calls EXCEPT ![i] =
                           [status |-> "rejected", value |-> <<>>]]
    /\ UNCHANGED <<pc, config, agents, transcript, beat, update, received,
                   origin, result, signalled, raw, parsed,
                   responseQueue, disk, writer>>

\* Agent i's respondTo rejects or throws.
Reject(i) ==
    /\ pc = "await"
    /\ calls[i].status = "pending"
    /\ calls' = [calls EXCEPT ![i] = [status |-> "rejected", value |-> <<>>]]
    /\ UNCHANGED <<pc, config, agents, transcript, beat, update, received,
                   callCount, origin, result,
                   signalled, raw, parsed,
                   responseQueue, disk, writer>>

\* Mutant of AllSettled: the wait ends with the first promise to settle.
AnySettled == \E i \in AgentIds : calls[i].status \in {"fulfilled", "rejected"}

\* Promise.allSettled resolves once no promise is pending.
AllSettled == \A i \in AgentIds : calls[i].status \in {"fulfilled", "rejected"}

\* The replies the entries pushed by Collect are made from (history only).
PushOrigins(o, rs, as) ==
    LET found == SelectSeq(rs, LAMBDA r : FindAgent(as, r.agentName) # <<>>)
    IN  o \o [i \in 1..Len(found) |->
                [agentName |-> found[i].agentName,
                 action    |-> found[i].parsed.action,
                 timestamp |-> found[i].timestamp]]

\* Mutant of Collect: Promise.all in place of Promise.allSettled, so that one
\* rejection rejects the whole run.
CollectPromiseAll ==
    /\ pc = "await"
    /\ AllSettled
    /\ IF \E i \in AgentIds : calls[i].status = "rejected"
       THEN /\ pc' = "threw"
            /\ result' = <<"Error">>
            /\ UNCHANGED <<transcript, origin>>
       ELSE /\ pc' = "oracle"
            /\ result' = result
            /\ \E dialogResponses \in {FilterDialog(collectResponses(calls))} :
                 /\ transcript' = PushEntries(transcript, dialogResponses,
                                              agents, beat)
                 /\ origin' = PushOrigins(origin, dialogResponses, agents)
    /\ UNCHANGED <<config, agents, beat, update, calls, received, callCount,
                   signalled, raw, parsed,
                   responseQueue, disk, writer>>

\* Lines 163-75: fan-in, sort, silent filter, append to the transcript.
Collect ==
    /\ pc = "await"
    /\ AllSettled
    /\ \E responses \in {collectResponses(calls)} :
         \E dialogResponses \in {FilterDialog(responses)} :
            /\ transcript' = PushEntries(transcript, dialogResponses, agents, beat)
            /\ origin' = PushOrigins(origin, dialogResponses, agents)
    /\ pc' = "oracle"
    /\ UNCHANGED <<config, agents, beat, update, calls, received, callCount,
                   result,
                   signalled, raw, parsed,
                   responseQueue, disk, writer>>

\* Mutant of CheckCompleteWith: beat++ runs ahead of the completion check.
CheckCompleteWithLateBreak(complete) ==
    /\ pc = "oracle"
    /\ signalled' = complete
    /\ beat' = beat + 1
    /\ pc' = IF complete THEN "break" ELSE "loop"
    /\ UNCHANGED <<config, agents, transcript, update, calls, received,
                   callCount, origin, result, raw, parsed,
                   responseQueue, disk, writer>>

\* Lines 77-83, for the value the awaited shouldComplete call resolved with:
\* break on true (beat is left as it is), else beat++.
CheckCompleteWith(complete) ==
    /\ pc = "oracle"
    /\ signalled' = complete
    /\ IF complete
       THEN /\ pc' = "break"
            /\ beat' = beat
       ELSE /\ pc' = "loop"
            /\ beat' = beat + 1
    /\ UNCHANGED <<config, agents, transcript, update, calls, received,
                   callCount, origin, result, raw, parsed,
                   responseQueue, disk, writer>>

\* Lines 77-83 with the shipped shouldComplete.
CheckComplete == CheckCompleteWith(shouldComplete(transcript, config, beat))

\* Lines 77-83 with a completion check that may resolve either way: the
\* evaluation the TODO of shouldComplete announces.
CheckCompleteOracle == \E complete \in BOOLEAN : CheckCompleteWith(complete)

\* Lines 85-106: the Scene Result of a run that left the loop.
Finish ==
    /\ \/ pc = "loop" /\ ~LoopGuard
       \/ pc = "break"
    /\ LET completionReason == CompletionReason(beat, EffectiveMaxBeats(config))
           goalAchieved == GoalAchieved(completionReason)
       IN  result' =
             [success    |-> TRUE,
              transcript |-> formatTranscript(transcript),
              metadata   |-> createMetadata(config, beat, completionReason,
                                            goalAchieved),
              outputPath |-> config.name,
              error      |-> <<>>]
    /\ pc' = "done"
    /\ UNCHANGED <<config, agents, transcript, beat, update, calls, received,
                   callCount, origin,
                   signalled, raw, parsed,
                   responseQueue, disk, writer>>

\* The moderator's own steps.
ModeratorStep == Validate \/ FanOut \/ Collect \/ CheckComplete \/ Finish

\* The agents' steps.
AgentStep == \E i \in AgentIds : Resolve(i) \/ Reject(i)

Next ==
    \/ Validate
    \/ FanOut
    \/ \E i \in AgentIds : Resolve(i)
    \/ \E i \in AgentIds : Reject(i)
    \/ Collect
    \/ CheckComplete
    \/ Finish

Spec == Init /\ [][Next]_vars

\* The event loop runs every ready continuation of the moderator; nothing
\* obliges an agent's promise to settle.
ModeratorFairSpec == Init /\ [][Next]_vars /\ WF_vars(ModeratorStep)

\* The run with the answer of the completion check left open.
OracleNext ==
    \/ Validate
    \/ FanOut
    \/ \E i \in AgentIds : Resolve(i)
    \/ \E i \in AgentIds : Reject(i)
    \/ Collect
    \/ CheckCompleteOracle
    \/ Finish

OracleSpec == Init /\ [][OracleNext]_vars

\* ------------------------------------- runs that name an initial speaker

\* config.initialSpeaker: omitted, the first agent, the second agent, a
\* name no agent has.
InitialSpeakers == {Null, "alice", "bob", "nobody"}

\* The beat limits of the runs that name an initial speaker.
SpeakerMaxBeats == {0, 1, 2}

\* One or two agents and a configuration that passes validation, with
\* every choice of initialSpeaker.
SpeakerInit ==
    /\ pc = "validate"
    /\ \E n \in 1..2 :
         /\ agents = SubSeq(Roster, 1, n)
         /\ \E k \in SpeakerMaxBeats, sp \in InitialSpeakers :
              config = [name |-> <<"s">>, prompt |-> <<"p">>,
                        characters |-> SubSeq(Roster, 1, n),
                        initialSpeaker |-> sp, maxBeats |-> {k}]
    /\ transcript = <<>>
    /\ beat = 0
    /\ update = <<>>
    /\ calls = [i \in AgentIds |-> NoCall]
    /\ received = [i \in AgentIds |-> <<>>]
    /\ callCount = [i \in AgentIds |-> 0]
    /\ origin = <<>>
    /\ result = <<>>
    /\ signalled = FALSE
    /\ raw = <<>>
    /\ parsed = <<>>
    /\ responseQueue = <<>>
    /\ disk = <<>>
    /\ writer = NoWriter

SpeakerSpec == SpeakerInit /\ [][Next]_vars

\* ------------------------------------------- the run with mock agents
\* (mock-character-agent.ts)

\* Replies a MockCharacterAgent is built with.
SpeakReply ==
    <<"[", "TO:", " ", "x", ",", " ", "TONE:", " ", "angry", "]",
      " ", "\"", "x", "\"">>

InterruptReply ==
    <<"[", "INTERRUPT", " ", "after", " ", "\"", "x", "\"", ",", " ",
      "TONE:", " ", "sad", "]", " ", "\"", "x", " ", "x", "\"">>

ReactReply == <<"[", "REACT", ",", " ", "TONE:", " ", "calm", ",", " ",
                "*", "x", "*", "]">>

SilentReply == <<"[", "SILENT", "]">>

\* A queue long enough for the default beat limit, going round the three
\* kinds of dialog.
CycleQueue ==
    [k \in 1..DefaultMaxBeats |->
        IF k % 3 = 1 THEN SpeakReply
        ELSE IF k % 3 = 2 THEN InterruptReply
        ELSE ReactReply]

\* The queues the mock agents are built with: none, one that runs out
\* after a few replies, and the long one.
ResponseQueues ==
    {<<>>, <<SpeakReply, SilentReply, ReactReply>>, CycleQueue}

\* The beat limits of the mock runs: omitted, and two explicit ones with
\* the same ratios at different beats.
MockMaxBeats == {{}, {10}, {5}}

\* Date.now() inside respondTo: the mock run stays within one millisecond.
MockNow == MinOf(Timestamps)

\* One or two mock agents with queues of their own, and a configuration
\* that passes validation.
MockInit ==
    /\ pc = "validate"
    /\ \E n \in 1..2 :
         /\ agents = SubSeq(Roster, 1, n)
         /\ responseQueue \in [1..n -> ResponseQueues]
         /\ \E mb \in MockMaxBeats :
              config = [name |-> <<"s">>, prompt |-> <<"p">>,
                        characters |-> SubSeq(Roster, 1, n),
                        initialSpeaker |-> Null, maxBeats |-> mb]
    /\ transcript = <<>>
    /\ beat = 0
    /\ update = <<>>
    /\ calls = [i \in AgentIds |-> NoCall]
    /\ received = [i \in AgentIds |-> <<>>]
    /\ callCount = [i \in AgentIds |-> 0]
    /\ origin = <<>>
    /\ result = <<>>
    /\ signalled = FALSE
    /\ raw = <<>>
    /\ parsed = <<>>
    /\ disk = <<>>
    /\ writer = NoWriter

\* const raw = this.responseQueue[this.callCount] || '[SILENT]', for the
\* call that made callCount n
QueuedReply(queue, n) ==
    IF n <= Len(queue) /\ queue[n] # <<>> THEN queue[n] ELSE SilentReply

\* MockCharacterAgent.respondTo of agent i resolves.
MockRespond(i) ==
    /\ pc = "await"
    /\ calls[i].status = "pending"
    /\ \E reply \in {QueuedReply(responseQueue[i], callCount[i])} :
         calls' = [calls EXCEPT ![i] =
                     [status |-> "fulfilled",
                      value  |-> <<[raw       |-> reply,
                                    parsed    |-> parseResponse(reply).value,
                                    timestamp |-> MockNow,
                                    agentName |-> agents[i]]>>]]
    /\ UNCHANGED <<pc, config, agents, transcript, beat, update, received,
                   callCount, origin, result, signalled, raw, parsed,
                   responseQueue, disk, writer>>

MockNext ==
    \/ Validate
    \/ FanOut
    \/ \E i \in AgentIds : MockRespond(i)
    \/ Collect
    \/ CheckComplete
    \/ Finish

MockSpec == MockInit /\ [][MockNext]_vars

\* ------------------------------------------- the run with task agents
\* (task-character-agent.ts)

\* The text the model behind a TaskCharacterAgent produces: nothing,
\* whitespace, free text (plain, padded, naming a tone, quoted, with a
\* bracket further on), and bracketed replies with and without the fields
\* the format asks for.
AgentTexts ==
    {<<>>, <<" ">>,
     <<"x">>, <<" ", "x", "\n">>, <<"x", " ", "angry">>,
     <<"\"", "x", "\"">>, <<"x", " ", "[", "SILENT", "]">>,
     SilentReply, SpeakReply,
     <<"[", "TONE:", " ", "angry", "]">>,
     <<"[", "x", "]", " ", "\"", "x", "\"">>}

\* return fullResponse.trim()
callAgent(text) == Trim(text)

\* The beat limits of the runs with task agents.
TaskMaxBeats == {1, 2}

\* One or two task agents and a configuration that passes validation.
TaskInit ==
    /\ pc = "validate"
    /\ \E n \in 1..2 :
         /\ agents = SubSeq(Roster, 1, n)
         /\ \E k \in TaskMaxBeats :
              config = [name |-> <<"s">>, prompt |-> <<"p">>,
                        characters |-> SubSeq(Roster, 1, n),
                        initialSpeaker |-> Null, maxBeats |-> {k}]
    /\ transcript = <<>>
    /\ beat = 0
    /\ update = <<>>
    /\ calls = [i \in AgentIds |-> NoCall]
    /\ received = [i \in AgentIds |-> <<>>]
    /\ callCount = [i \in AgentIds |-> 0]
    /\ origin = <<>>
    /\ result = <<>>
    /\ signalled = FALSE
    /\ raw = <<>>
    /\ parsed = <<>>
    /\ responseQueue = <<>>
    /\ disk = <<>>
    /\ writer = NoWriter

\* TaskCharacterAgent.respondTo of agent i resolves: the trimmed text is
\* parsed and stamped.
TaskRespond(i) ==
    /\ pc = "await"
    /\ calls[i].status = "pending"
    /\ \E text \in AgentTexts, ts \in Timestamps :
         \E reply \in {callAgent(text)} :
            calls' = [calls EXCEPT ![i] =
                        [status |-> "fulfilled",
                         value  |-> <<[raw       |-> reply,
                                       parsed    |-> parseResponse(reply).value,
                                       timestamp |-> ts,
                                       agentName |-> agents[i]]>>]]
    /\ UNCHANGED <<pc, config, agents, transcript, beat, update, received,
                   callCount, origin, result, signalled, raw, parsed,
                   responseQueue, disk, writer>>

TaskNext ==
    \/ Validate
    \/ FanOut
    \/ \E i \in AgentIds : TaskRespond(i)
    \/ \E i \in AgentIds : Reject(i)
    \/ Collect
    \/ CheckComplete
    \/ Finish

TaskSpec == TaskInit /\ [][TaskNext]_vars

\* --------------------------------------------------- writeSceneOutputs
\* (file-writer.ts)
\*
\* A path is the sequence of its segments; the disk maps the path of every
\* directory and file on it to what is there.  A string is a sequence of
\* symbols, '' is <<>>; an omitted argument is <<>>, a given one <<v>>.

\* baseDir: string = 'data/scenes'
DefaultBaseDir == <<"data", "scenes">>

\* path.join of a directory and one more segment
pathJoin(dir, segment) == Append(dir, segment)

Directory == [kind |-> "dir"]

File(content) == [kind |-> "file", content |-> content]

\* fs.mkdir(dir, { recursive: true }): the directory and every missing
\* ancestor; what is already there stays.
mkdirRecursive(d, dir) ==
    LET made == {SubSeq(dir, 1, k) : k \in 1..Len(dir)}
    IN  [p \in DOMAIN d \cup made |-> IF p \in DOMAIN d THEN d[p] ELSE Directory]

\* fs.writeFile(path, content, 'utf-8'): creates or replaces the file.
writeFile(d, path, content) ==
    [p \in DOMAIN d \cup {path} |-> IF p = path THEN File(content) ELSE d[p]]

formatCompletionReason(reason) ==
    CASE reason = "goal_achieved" -> "Goal Achieved"
      [] reason = "natural_end" -> "Natural Ending"
      [] reason = "max_beats" -> "Max Beats Reached"
      [] reason = "error" -> "Error"
      [] OTHER -> reason

\* The transcript file: the header lines, the transcript, the footer lines
\* (generated time and duration are wall-clock values, left out; costs and
\* errors are not set in the results written here).
formatTranscriptFile(r) ==
    LET meta == r.metadata
    IN  <<<<"SCENE: ", meta.name>>,
          <<"CHARACTERS: ", meta.characters>>,
          <<"BEATS: ", meta.totalBeats>>,
          <<"GOAL ACHIEVED: ", IF meta.goalAchieved THEN "Yes" ELSE "No">>,
          <<"COMPLETION: ", formatCompletionReason(meta.completionReason)>>,
          <<"[SCENE START]">>,
          r.transcript,
          <<"[SCENE END - ",
            IF meta.goalAchieved THEN "Goal Achieved"
            ELSE formatCompletionReason(meta.completionReason), "]">>,
          <<"STATISTICS:">>,
          <<"- Duration: ", meta.totalBeats, " beats">>,
          <<"- Characters: ", meta.characterCount>> >>

\* JSON.stringify(result.metadata, null, 2): the object's own fields, read
\* back as the same object.
stringifyMetadata(meta) == <<"json", meta>>

\* The results handed to the writer: two scenes, one of them run twice
\* with a different number of beats.
SceneResults ==
    {[success    |-> TRUE,
      transcript |-> <<>>,
      metadata   |-> createMetadata([name |-> nb[1],
                                     characters |-> <<"alice">>],
                                    nb[2], "max_beats", FALSE),
      outputPath |-> nb[1],
      error      |-> <<>>] :
        nb \in {<<"s1", 0>>, <<"s1", 1>>, <<"s2", 0>>}}

\* The baseDir argument: omitted, or the directory of the tests.
BaseDirArgs == {<<>>, <<<<"data", "scenes-test">>>>}

\* The debugLog argument: omitted, the empty string, or one of two logs.
DebugLogArgs == {<<>>, <<<<>>>>, <<<<"debug1">>>>, <<<<"debug2">>>>}

\* if (debugLog): undefined and '' are falsy
DebugLogTruthy(debugLog) == debugLog # <<>> /\ debugLog[1] # <<>>

\* The writer is called on an empty disk.
WriterInit ==
    /\ pc = "writer"
    /\ config = [name |-> Undefined, prompt |-> Undefined,
                 characters |-> Undefined, initialSpeaker |-> Null,
                 maxBeats |-> {}]
    /\ agents = <<>>
    /\ transcript = <<>>
    /\ beat = 0
    /\ update = <<>>
    /\ calls = [i \in AgentIds |-> NoCall]
    /\ received = [i \in AgentIds |-> <<>>]
    /\ callCount = [i \in AgentIds |-> 0]
    /\ origin = <<>>
    /\ result = <<>>
    /\ signalled = FALSE
    /\ raw = <<>>
    /\ parsed = <<>>
    /\ responseQueue = <<>>
    /\ disk = <<>>
    /\ writer = NoWriter

\* writeSceneOutputs(result, baseDir, debugLog) is called: line 28.
WriteSceneOutputs ==
    /\ writer.pc \in {"idle", "returned"}
    /\ writer.calls < MaxWrites
    /\ \E r \in SceneResults, b \in BaseDirArgs, d \in DebugLogArgs :
         writer' = [pc       |-> "mkdir",
                    calls    |-> writer.calls + 1,
                    result   |-> r,
                    baseDir  |-> IF b = <<>> THEN DefaultBaseDir ELSE b[1],
                    debugLog |-> d,
                    sceneDir |-> pathJoin(IF b = <<>> THEN DefaultBaseDir
                                          ELSE b[1],
                                          r.metadata.name),
                    returned |-> <<>>]
    /\ UNCHANGED <<pc, config, agents, transcript, beat, update, calls,
                   received, callCount, origin, result, signalled, raw,
                   parsed, responseQueue, disk>>

\* await fs.mkdir(sceneDir, { recursive: true })
MakeSceneDir ==
    /\ writer.pc = "mkdir"
    /\ disk' = mkdirRecursive(disk, writer.sceneDir)
    /\ writer' = [writer EXCEPT !.pc = "transcript"]
    /\ UNCHANGED <<pc, config, agents, transcript, beat, update, calls,
                   received, callCount, origin, result, signalled, raw,
                   parsed, responseQueue>>

\* await fs.writeFile(transcriptPath, formatTranscriptFile(result))
WriteTranscript ==
    /\ writer.pc = "transcript"
    /\ disk' = writeFile(disk, pathJoin(writer.sceneDir, "transcript.txt"),
                         formatTranscriptFile(writer.result))
    /\ writer' = [writer EXCEPT !.pc = "metadata"]
    /\ UNCHANGED <<pc, config, agents, transcript, beat, update, calls,
                   received, callCount, origin, result, signalled, raw,
                   parsed, responseQueue>>

\* await fs.writeFile(metadataPath, JSON.stringify(result.metadata, null, 2))
WriteMetadata ==
    /\ writer.pc = "metadata"
    /\ disk' = writeFile(disk, pathJoin(writer.sceneDir, "metadata.json"),
                         stringifyMetadata(writer.result.metadata))
    /\ writer' = [writer EXCEPT !.pc = "debug"]
    /\ UNCHANGED <<pc, config, agents, transcript, beat, update, calls,
                   received, callCount, origin, result, signalled, raw,
                   parsed, responseQueue>>

\* if (debugLog) { await fs.writeFile(debugPath, debugLog) }
WriteDebugLog ==
    /\ writer.pc = "debug"
    /\ disk' = IF DebugLogTruthy(writer.debugLog)
               THEN writeFile(disk, pathJoin(writer.sceneDir, "debug.log"),
                              writer.debugLog[1])
               ELSE disk
    /\ writer' = [writer EXCEPT !.pc = "return"]
    /\ UNCHANGED <<pc, config, agents, transcript, beat, update, calls,
                   received, callCount, origin, result, signalled, raw,
                   parsed, responseQueue>>

\* return sceneDir
ReturnSceneDir ==
    /\ writer.pc = "return"
    /\ writer' = [writer EXCEPT !.pc = "returned",
                                !.returned = <<writer.sceneDir>>]
    /\ UNCHANGED <<pc, config, agents, transcript, beat, update, calls,
                   received, callCount, origin, result, signalled, raw,
                   parsed, responseQueue, disk>>

WriterNext ==
    \/ WriteSceneOutputs
    \/ MakeSceneDir
    \/ WriteTranscript
    \/ WriteMetadata
    \/ WriteDebugLog
    \/ ReturnSceneDir

WriterSpec == WriterInit /\ [][WriterNext]_vars

\* ------------------------------------------------- the parser on its own

\* The parts raw replies are put together from: what may precede the bracket
\* body, the fields of the body (joined by ", "), the closing bracket or
\* none, and what follows it.
Leads == {<<>>, <<"[">>, <<" ", "[">>}

BodyFields ==
    {<<"INTERRUPT">>,
     InterruptAfter \o <<" ", "\"", "x", "\"">>,
     InterruptAfter \o <<" ", "x">>,
     <<"SILENT">>,
     <<"REACT">>,
     <<"TO:", " ", "x">>,
     <<"TONE:", " ", "angry">>,
     <<"TONE:", " ">>,
     <<"*", "x", "*">>,
     <<"x">>}

Closes == {<<>>, <<"]">>}

Tails ==
    {<<>>, <<" ">>, <<" ", "\"", "x", "\"">>, <<" ", "x">>,
     <<" ", "SAD", " ", "angry">>, <<"\"">>, <<" ", "\"", "\"">>,
     <<" ", "x", "'", "x", " ", "\"", "x", "\"">>}

\* fields.join(', ')
RECURSIVE JoinFields(_)
JoinFields(fs) ==
    IF fs = <<>> THEN <<>>
    ELSE IF Len(fs) = 1 THEN fs[1]
    ELSE fs[1] \o <<",", " ">> \o JoinFields(Tail(fs))

\* The raw replies the parser is run on: null/undefined, and every string
\* of a lead, at most MaxFields fields, a close and a tail.
RawInputs ==
    {Undefined} \cup
    {lead \o JoinFields(fs) \o close \o tail :
        lead \in Leads,
        fs \in UNION {[1..n -> BodyFields] : n \in 0..MaxFields},
        close \in Closes,
        tail \in Tails}

\* A call of parseResponse is about to be made; the moderator is not running.
ParserInit ==
    /\ raw \in RawInputs
    /\ parsed = <<>>
    /\ pc = "parser"
    /\ config = [name |-> Undefined, prompt |-> Undefined,
                 characters |-> Undefined, initialSpeaker |-> Null,
                 maxBeats |-> {}]
    /\ agents = <<>>
    /\ transcript = <<>>
    /\ beat = 0
    /\ update = <<>>
    /\ calls = <<>>
    /\ received = <<>>
    /\ callCount = <<>>
    /\ origin = <<>>
    /\ result = <<>>
    /\ signalled = FALSE
    /\ responseQueue = <<>>
    /\ disk = <<>>
    /\ writer = NoWriter

\* parseResponse(raw) completes.
ParseResponse ==
    /\ pc = "parser"
    /\ parsed = <<>>
    /\ parsed' = <<parseResponse(raw)>>
    /\ UNCHANGED <<pc, config, agents, transcript, beat, update, calls,
                   received, callCount, origin, result, signalled, raw,
                   responseQueue, disk, writer>>

ParserNext == ParseResponse

ParserSpec == ParserInit /\ [][ParserNext]_vars


\* ----------------------------------------------------------------- claims

ValidConfig == validateConfig(config).valid

Terminated == pc \in {"done", "threw"}

\* The beat of the last fan-out, once there was one.
LastBeat == update.beat

\* The calls of the last fan-out have all settled and were collected.
Collected == pc \in {"oracle", "loop", "break", "done"} /\ update # <<>>

RejectedCalls == {i \in AgentIds : calls[i].status = "rejected"}

SpokenCalls ==
    {i \in AgentIds : /\ calls[i].status = "fulfilled"
                      /\ calls[i].value[1].parsed.action # "silent"}

SilentCalls ==
    {i \in AgentIds : /\ calls[i].status = "fulfilled"
                      /\ calls[i].value[1].parsed.action = "silent"}

\* C1: no transcript entry is made from a reply whose parsed action is
\* silent, and every Dialog entry has an action among speak, interrupt, react.
C1_SilentFiltered ==
    /\ Len(origin) = Len(transcript)
    /\ \A k \in 1..Len(transcript) :
         /\ origin[k].action # "silent"
         /\ transcript[k].type = "dialog" =>
              transcript[k].action \in {"speak", "interrupt", "react"}

\* A beat was collected in which one agent was silent and another spoke.
C1_Witness ==
    /\ Collected
    /\ SilentCalls # {}
    /\ SpokenCalls # {}
    /\ \E k \in 1..Len(transcript) : transcript[k].beat = LastBeat

\* C2: the transcript is ordered by beat and, within a beat, by reply
\* timestamp, whatever the agents' positions in the agents list.
C2_BeatOrderMonotone ==
    \A i, j \in 1..Len(transcript) :
        i < j =>
          /\ transcript[i].beat <= transcript[j].beat
          /\ transcript[i].beat = transcript[j].beat =>
               transcript[i].timestamp <= transcript[j].timestamp

\* Two entries of one beat stand in timestamp order against the agents-list
\* order: the agent listed later replied with the earlier timestamp.
C2_Witness ==
    \E i, j \in 1..Len(transcript) :
        /\ i < j
        /\ transcript[i].beat = transcript[j].beat
        /\ transcript[i].timestamp < transcript[j].timestamp
        /\ transcript[i].speaker = agents[2]
        /\ transcript[j].speaker = agents[1]

\* The configured beat limit of a configuration that states one.
ConfiguredMaxBeats == CHOOSE k \in config.maxBeats : TRUE

\* C3 as stated: every run of a configuration that passes validation, with
\* maxBeats = k, ends with completionReason = max_beats and totalBeats <= k.
\* It fails for a negative k, which passes validation and gives totalBeats 0.
C3_MaxBeatsAsStated ==
    (pc = "done" /\ ValidConfig) =>
        /\ result.metadata.completionReason = "max_beats"
        /\ result.metadata.totalBeats <= ConfiguredMaxBeats

\* The steps a run has left at most: whole iterations still to come, and the
\* steps left of the current one.
StepsLeft ==
    LET pending == Cardinality({i \in AgentIds : calls[i].status = "pending"})
        stage == CASE pc = "validate" -> 2 * N + 8
                   [] pc = "loop"     -> N + 3
                   [] pc = "await"    -> pending + 2
                   [] pc = "oracle"   -> 1
                   [] OTHER           -> 0
    IN  IF Terminated THEN 0
        ELSE Max(EffectiveMaxBeats(config) - beat, 0) * (N + 4) + stage

\* C3, amended: with an integer maxBeats = k >= 0, a completion check that
\* never signals and agents whose calls all settle, the run terminates (until
\* it is done a step is always possible, only an agent's settling is ever
\* waited for, and every step brings the end nearer), and its result has
\* completionReason = max_beats and totalBeats <= k.
C3_MaxBeatsTermination ==
    /\ [](( pc = "done" /\ ValidConfig /\ ConfiguredMaxBeats >= 0) =>
            /\ result.success
            /\ result.metadata.completionReason = "max_beats"
            /\ result.metadata.totalBeats <= ConfiguredMaxBeats)
    /\ []((ValidConfig /\ ConfiguredMaxBeats >= 0 /\ pc # "done") =>
            /\ pc # "threw"
            /\ ENABLED ModeratorStep \/ ENABLED AgentStep)
    /\ [][StepsLeft' < StepsLeft]_vars

\* A run of two agents ended at a beat limit of 2 after both beats.
C3_Witness ==
    /\ pc = "done"
    /\ ValidConfig
    /\ N = 2
    /\ ConfiguredMaxBeats = 2
    /\ result.metadata.totalBeats = 2
    /\ result.metadata.completionReason = "max_beats"
    /\ \A i \in AgentIds : callCount[i] = 2

\* The transcript holds the Dialog entry of agent j's reply to the last beat.
HasEntryOf(j) ==
    \E k \in 1..Len(transcript) :
        /\ transcript[k].type = "dialog"
        /\ transcript[k].speaker = agents[j]
        /\ transcript[k].beat = LastBeat
        /\ transcript[k].timestamp = calls[j].value[1].timestamp

\* C4: when exactly one agent's call fails in a beat, the run is not
\* rejected, every non-silent reply of the other agents is in the transcript
\* once the beat is collected, the loop goes on to the next beat, and the
\* final result has success = true.
C4_PartialFailureTolerance ==
    Cardinality(RejectedCalls) = 1 =>
        /\ pc # "threw"
        /\ Collected => \A j \in SpokenCalls : HasEntryOf(j)
        /\ pc = "loop" => beat = LastBeat + 1
        /\ (pc = "loop" /\ beat < ConfiguredMaxBeats) => ENABLED FanOut
        /\ pc = "done" => result.success

\* Beat 0 of a two-beat scene was collected with one agent failed and the
\* other's reply in the transcript; the fan-out of beat 1 is next.
C4_Witness ==
    /\ pc = "loop"
    /\ beat = 1
    /\ LoopGuard
    /\ N >= 2
    /\ Cardinality(RejectedCalls) = 1
    /\ \E j \in SpokenCalls : HasEntryOf(j)

\* The configuration is a SceneConfig one of whose required parts is empty.
EmptyPart ==
    /\ config.characters # Undefined
    /\ \/ config.name = <<>>
       \/ config.prompt = <<>>
       \/ config.characters = <<>>

EntriesBefore(t, b) == SelectSeq(t, LAMBDA e : e.beat < b)

\* C6: in a beat every agent is handed one and the same Beat Context, built
\* from the entries of earlier beats only; it shows no reply of the beat
\* itself, however the agents' completions interleave.
C6_ContextIsolation ==
    pc \in {"await", "oracle"} =>
        LET prior == EntriesBefore(transcript, beat)
        IN  \A i \in AgentIds :
              /\ received[i] = update
              /\ received[i].beat = beat
              /\ received[i].transcript =
                     formatTranscript(SliceLast(prior, RecentWindow))
              /\ received[i].lastEvent =
                     (IF prior = <<>> THEN <<>> ELSE <<prior[Len(prior)]>>)
              /\ \A k \in 1..Len(received[i].lastEvent) :
                     received[i].lastEvent[k].beat < beat

\* In beat 1, after beat 0 left an entry, one agent has replied aloud while
\* another is still pending.
C6_Witness ==
    /\ pc = "await"
    /\ beat = 1
    /\ Len(transcript) >= 1
    /\ SpokenCalls # {}
    /\ \E i \in AgentIds : calls[i].status = "pending"

\* C7: once a beat is collected, each agent whose call failed in it has a
\* System Notice "<name> unable to respond" of that beat in the transcript,
\* and no Dialog entry of that beat.
C7_SystemNoticeOnFailure ==
    Collected =>
        \A i \in RejectedCalls :
            /\ \E k \in 1..Len(transcript) :
                 /\ transcript[k].type = "system"
                 /\ transcript[k].beat = LastBeat
                 /\ formatEntry(transcript[k]) =
                        <<"SYSTEM", <<agents[i], "unable to respond">>>>
            /\ ~\E k \in 1..Len(transcript) :
                 /\ transcript[k].type = "dialog"
                 /\ transcript[k].beat = LastBeat
                 /\ transcript[k].speaker = agents[i]

\* C8: the final result's metadata.errors has a record of every failed
\* invocation of the last beat, with the beat and the participant; a run of
\* one beat with one failure ends with exactly one record.
C8_ErrorsRecorded ==
    (pc = "done" /\ ValidConfig /\ update # <<>>) =>
        /\ \A i \in RejectedCalls :
             \E k \in 1..Len(MetadataErrors(result.metadata)) :
                /\ MetadataErrors(result.metadata)[k].beat = LastBeat
                /\ MetadataErrors(result.metadata)[k].character = agents[i]
        /\ (result.metadata.totalBeats = 1 /\ Cardinality(RejectedCalls) = 1) =>
             Len(MetadataErrors(result.metadata)) = 1

\* C9: the run terminates with a Scene Result even when an agent's call
\* never settles.
C9_HungCallTerminates == <>Terminated

\* C10: a run that passed validation ends with success = true and either
\* completionReason = goal_achieved with goalAchieved, or completionReason =
\* max_beats without goalAchieved.
C10_TerminalOutcomes ==
    (Terminated /\ ValidConfig) =>
        /\ pc = "done"
        /\ result.success
        /\ result.error = <<>>
        /\ \/ /\ result.metadata.completionReason = "goal_achieved"
              /\ result.metadata.goalAchieved
           \/ /\ result.metadata.completionReason = "max_beats"
              /\ ~result.metadata.goalAchieved
        /\ result.metadata.goalAchieved <=>
             result.metadata.completionReason = "goal_achieved"

\* A validated run of at least one beat ended at the beat limit.
C10_Witness ==
    /\ pc = "done"
    /\ ValidConfig
    /\ result.success
    /\ result.metadata.totalBeats >= 1
    /\ result.metadata.completionReason = "max_beats"
    /\ ~result.metadata.goalAchieved


\* C11: once the completion check signals after beat b (0 <= b < maxBeats,
\* the last permitted beat included), the run is at its break or has
\* returned, beat is still b, every agent has been invoked b + 1 times (no
\* further beat), and the result reports goal_achieved with goalAchieved
\* true; a result reports max_beats only when the check never signalled.
C11_OracleStopsRun ==
    /\ signalled =>
          /\ pc \in {"break", "done"}
          /\ update # <<>> /\ LastBeat = beat
          /\ 0 <= beat /\ beat < EffectiveMaxBeats(config)
          /\ \A i \in AgentIds : callCount[i] = beat + 1
          /\ pc = "done" =>
                /\ result.success
                /\ result.metadata.completionReason = "goal_achieved"
                /\ result.metadata.goalAchieved = TRUE
                /\ result.metadata.totalBeats = beat
    /\ (pc = "done" /\ result.metadata.completionReason = "max_beats")
          => ~signalled

\* The check signals after the last permitted beat of a two-beat scene.
C11_Witness ==
    /\ pc = "done"
    /\ signalled
    /\ ConfiguredMaxBeats = 2
    /\ beat = 1
    /\ N >= 1
    /\ result.metadata.completionReason = "goal_achieved"


\* A parseResponse call was made with a non-empty string and has completed.
ParsedString == parsed # <<>> /\ raw # Undefined /\ raw # <<>>

\* The ParsedResponse the completed call returned.
ParsedValue == parsed[1].value

\* The bracket body of a raw reply that starts with a bracketed segment.
BodyOf(s) == BracketMatch(s)[1].bracketContent

\* C12: parseResponse is total.  For every argument (null/undefined, empty,
\* unbalanced brackets, garbage) the call returns, never throws, and the
\* returned record has an action of the four kinds and a tone and a content
\* field; when strictParse throws, the result is that of salvageParse.
C12_ParserTotal ==
    parsed # <<>> =>
       /\ ~parsed[1].threw
       /\ ParsedValue.action \in ParsedActions
       /\ {"tone", "content"} \subseteq DOMAIN ParsedValue
       /\ (ParsedString /\ strictParse(raw).threw)
             => ParsedValue = salvageParse(raw)

\* strictParse threw on a malformed interrupt phrase inside brackets and the
\* call still returned a record.
C12_Witness ==
    /\ ParsedString
    /\ strictParse(raw).threw
    /\ strictParse(raw).error = "Interrupt phrase not properly formatted"
    /\ ~parsed[1].threw
    /\ ParsedValue.action = "speak"

\* C13: an empty or null/undefined argument yields action silent, empty
\* content and a warning (never speak); a non-empty argument with no leading
\* bracketed segment yields action speak and a warning (never silent).
C13_EmptySilentUnparseableSpeak ==
    parsed # <<>> =>
       /\ (raw = Undefined \/ raw = <<>>) =>
             /\ ParsedValue.action = "silent"
             /\ ParsedValue.content = <<>>
             /\ ParsedValue.warning # <<>>
       /\ (ParsedString /\ BracketMatch(raw) = <<>>) =>
             /\ ParsedValue.action = "speak"
             /\ ParsedValue.warning # <<>>

\* A SILENT annotation behind a leading space: no leading bracket, so speak.
C13_Witness ==
    /\ parsed # <<>>
    /\ raw = <<" ", "[", "SILENT", "]">>
    /\ ParsedValue.action = "speak"
    /\ ParsedValue.warning = <<WarnSalvage>>


\* The completed call was made with a string that starts with a bracketed
\* segment.
ParsedBracketed == ParsedString /\ BracketMatch(raw) # <<>>

\* The completed call returned what strictParse returned.
ParsedStrictly == ParsedBracketed /\ ~strictParse(raw).threw

\* C14: for a reply that starts with a bracketed segment whose body contains
\* INTERRUPT but no well-formed after "<phrase>", the call returns action
\* interrupt, no interruptAfter, and the warning that the phrase is missing.
C14_InterruptWithoutPhrase ==
    (/\ ParsedBracketed
     /\ Includes(BodyOf(raw), <<"INTERRUPT">>)
     /\ InterruptMatch(BodyOf(raw)) = <<>>)
    => /\ ~parsed[1].threw
       /\ ParsedValue.action = "interrupt"
       /\ ParsedValue.interruptAfter = <<>>
       /\ ParsedValue.warning = <<WarnInterrupt>>

\* C15: in a result of the strict tier the action follows the keywords of
\* the bracket body with precedence INTERRUPT, SILENT, REACT, speak.
C15_KeywordPrecedence ==
    ParsedStrictly =>
       LET has(k) == Includes(BodyOf(raw), <<k>>)
       IN  /\ has("INTERRUPT") => ParsedValue.action = "interrupt"
           /\ (~has("INTERRUPT") /\ has("SILENT"))
                 => ParsedValue.action = "silent"
           /\ (~has("INTERRUPT") /\ ~has("SILENT") /\ has("REACT"))
                 => ParsedValue.action = "react"
           /\ (~has("INTERRUPT") /\ ~has("SILENT") /\ ~has("REACT"))
                 => ParsedValue.action = "speak"

\* A body with both SILENT and INTERRUPT, SILENT first.
C15_Witness ==
    /\ ParsedStrictly
    /\ BodyOf(raw) = <<"SILENT", ",", " ", "INTERRUPT">>
    /\ ParsedValue.action = "interrupt"

\* C16: in a result of the strict tier for a bracket body without a TONE
\* field, a non-silent action comes with tone "neutral" and the warning
\* about TONE, and a silent action comes without that warning.
C16_MissingTone ==
    (ParsedStrictly /\ ~Includes(BodyOf(raw), <<"TONE:">>)) =>
       /\ ParsedValue.action # "silent" =>
             /\ ParsedValue.tone = <<"neutral">>
             /\ ParsedValue.warning = <<WarnTone>>
       /\ ParsedValue.action = "silent" =>
             ParsedValue.warning # <<WarnTone>>

\* A silent reply with a nonverbal description and no TONE field.
C16_Witness ==
    /\ ParsedStrictly
    /\ raw = <<"[", "SILENT", ",", " ", "*", "x", "*", "]">>
    /\ ParsedValue.action = "silent"
    /\ ParsedValue.warning = <<>>

\* C17: the salvage tier handles a non-empty reply exactly when the reply
\* has no leading bracketed segment.
C17_SalvageIffNoBracket ==
    ParsedString =>
       (ParsedValue.warning = <<WarnSalvage>> <=> BracketMatch(raw) = <<>>)


\* The number of beats begun so far.
BeatsBegun == IF update = <<>> THEN 0 ELSE LastBeat + 1

\* C19: every agent has been invoked exactly once per beat begun, whatever
\* its earlier invocations came to (a rejection adds no invocation); and
\* the step that begins the next beat invokes every agent, those whose
\* last invocation was rejected included.
C19_OneInvocationPerBeat ==
    /\ [](\A i \in AgentIds : callCount[i] = BeatsBegun)
    /\ [][(pc = "loop" /\ LoopGuard) =>
            \A i \in AgentIds : /\ callCount'[i] = callCount[i] + 1
                                 /\ calls'[i].status = "pending"]_vars
    /\ [][pc # "loop" => callCount' = callCount]_vars

\* Beat 0 is over, agent 1 failed in it and was invoked once; beat 1 is due.
C19_Witness ==
    /\ pc = "loop"
    /\ LoopGuard
    /\ beat = 1
    /\ N >= 2
    /\ calls[1].status = "rejected"
    /\ calls[2].status = "fulfilled"
    /\ callCount[1] = 1

\* C20: while an invocation of the current beat is pending the run is at
\* its await: the transcript holds no entry of that beat and the completion
\* check has not been evaluated for it; both happen only once every
\* invocation has settled.
C20_FanInBarrier ==
    /\ (\E i \in AgentIds : calls[i].status = "pending") => pc = "await"
    /\ pc = "await" =>
          /\ LastBeat = beat
          /\ \A k \in 1..Len(transcript) : transcript[k].beat < beat
    /\ pc \in {"oracle", "break"} => AllSettled /\ LastBeat = beat

\* The first reply of a beat has arrived, it is not silent, and another
\* invocation is still pending.
C20_Witness ==
    /\ pc = "await"
    /\ N >= 2
    /\ calls[2].status = "fulfilled"
    /\ calls[2].value[1].parsed.action = "speak"
    /\ calls[1].status = "pending"
    /\ \A k \in 1..Len(transcript) : transcript[k].beat < beat


PendingCalls == {i \in AgentIds : calls[i].status = "pending"}

\* C21: beats do not overlap.  Every outstanding invocation was given the
\* context of the current beat, and outstanding invocations exist only
\* while the run awaits them; a context is built and sent out only at the
\* head of the loop, with nothing outstanding, for the beat that follows
\* the one whose fan-in, append and completion check are over.
C21_BeatsDoNotOverlap ==
    /\ [](/\ \A i \in PendingCalls : received[i].beat = beat
          /\ PendingCalls # {} => (pc = "await" /\ LastBeat = beat))
    /\ [][(update' # update \/ callCount' # callCount) =>
            /\ pc = "loop"
            /\ PendingCalls = {}
            /\ transcript' = transcript
            /\ update'.beat = beat
            /\ update # <<>> => update'.beat = LastBeat + 1]_vars

\* Beat 1 is under way with one reply in and one outstanding.
C21_Witness ==
    /\ pc = "await"
    /\ beat = 1
    /\ N >= 2
    /\ calls[1].status = "pending"
    /\ calls[2].status = "fulfilled"
    /\ received[1].beat = 1


\* C24: with the shipped shouldComplete no run is ever signalled to stop:
\* the loop is never left by its break, and every run that passes validation
\* and returns has executed all its beats (max(k, 0) for maxBeats = k) and
\* reports max_beats with goalAchieved false, never goal_achieved.
C24_ShippedOracleNeverSignals ==
    /\ ~signalled
    /\ pc # "break"
    /\ (pc = "done" /\ ValidConfig) =>
          /\ result.success
          /\ beat = Max(EffectiveMaxBeats(config), 0)
          /\ \A i \in AgentIds : callCount[i] = beat
          /\ result.metadata.totalBeats = beat
          /\ result.metadata.completionReason = "max_beats"
          /\ result.metadata.goalAchieved = FALSE

\* A two-beat run in which an agent spoke has returned with max_beats.
C24_Witness ==
    /\ pc = "done"
    /\ ValidConfig
    /\ ConfiguredMaxBeats = 2
    /\ Len(transcript) >= 1
    /\ result.metadata.completionReason = "max_beats"
    /\ ~result.metadata.goalAchieved


\* The entries a step appends to the transcript.
NewEntries == (Len(transcript) + 1)..Len(transcript')

\* C27: every Dialog entry has a beat index b with 0 <= b < maxBeats, the
\* speaker and the timestamp of the reply it was made from; and an entry is
\* appended with the beat index of the context its reply was solicited
\* with, by an agent of that name whose invocation returned that timestamp.
C27_EntryProvenance ==
    /\ [](/\ Len(origin) = Len(transcript)
          /\ \A k \in 1..Len(transcript) :
               /\ transcript[k].type = "dialog"
               /\ 0 <= transcript[k].beat
               /\ transcript[k].beat < EffectiveMaxBeats(config)
               /\ transcript[k].speaker = origin[k].agentName
               /\ transcript[k].timestamp = origin[k].timestamp)
    /\ [][\A k \in NewEntries :
            \E i \in AgentIds :
               /\ calls[i].status = "fulfilled"
               /\ agents[i] = transcript'[k].speaker
               /\ received[i].beat = transcript'[k].beat
               /\ calls[i].value[1].timestamp = transcript'[k].timestamp]_vars

\* An entry of beat 1, made from bob's reply, after an entry of beat 0.
C27_Witness ==
    /\ Len(transcript) >= 2
    /\ transcript[1].beat = 0
    /\ transcript[Len(transcript)].beat = 1
    /\ transcript[Len(transcript)].speaker = "bob"
    /\ transcript[Len(transcript)].timestamp = 1001

\* C28: the transcript is append-only: every step leaves the entries that
\* are there as they are and where they are.
C28_AppendOnly ==
    [][/\ Len(transcript') >= Len(transcript)
       /\ SubSeq(transcript', 1, Len(transcript)) = transcript]_vars

\* A later beat has appended an entry with an earlier timestamp than an
\* entry of the beat before it.
C28_Witness ==
    /\ Len(transcript) >= 2
    /\ transcript[1].beat = 0
    /\ transcript[1].timestamp = 1001
    /\ transcript[Len(transcript)].beat = 1
    /\ transcript[Len(transcript)].timestamp = 1000


\* The completed call returned what salvageParse returned.
ParsedBySalvage == ParsedString /\ strictParse(raw).threw

\* The places of a reply where a quoted span opens: a quote character, one
\* or more characters that are no quotes, a quote character.
QuotedSpans(s) ==
    {p \in 1..Len(s) :
        /\ s[p] \in Quotes
        /\ \E q \in (p + 2)..Len(s) :
             /\ s[q] \in Quotes
             /\ \A j \in (p + 1)..(q - 1) : s[j] \notin Quotes}

ConformingReplies ==
    {<<"[", "TO:", " ", "x", ",", " ", "TONE:", " ", "angry", "]",
       " ", "\"", "x", "\"">>,
     <<"[", "SILENT", "]">>,
     <<"[", "INTERRUPT", " ", "after", " ", "\"", "x", "\"", ",", " ",
       "TONE:", " ", "angry", "]", " ", "\"", "x", "\"">>}

\* C30: a warning is attached whenever the extraction degraded: the salvage
\* result or the empty-input result is returned, the strict tier defaulted
\* the tone, an interrupt came without its phrase, or a speak or interrupt
\* came with empty content; and the three conforming replies get no
\* warning.
C30_WarningWheneverDegraded ==
    parsed # <<>> =>
       /\ (raw = Undefined \/ raw = <<>> \/ ParsedBySalvage)
             => ParsedValue.warning # <<>>
       /\ ParsedStrictly =>
             /\ (/\ ParsedValue.action # "silent"
                 /\ FieldMatch(BodyOf(raw), "TONE:", {",", "]", "*"}) = <<>>)
                   => ParsedValue.warning # <<>>
             /\ (/\ ParsedValue.action = "interrupt"
                 /\ ParsedValue.interruptAfter = <<>>)
                   => ParsedValue.warning # <<>>
             /\ (/\ ParsedValue.action \in {"speak", "interrupt"}
                 /\ ParsedValue.content = <<>>)
                   => ParsedValue.warning # <<>>
       /\ raw \in ConformingReplies => ParsedValue.warning = <<>>



\* ------------------------------------------------------------------- C22

WrapUpNote ==
    "Scene approaching conclusion. Begin wrapping up your character arc."

PastMidpointNote ==
    "Scene past midpoint. Consider moving toward resolution."

\* C22: when the configuration omits maxBeats the beat limit is 50: the
\* run with the shipped oracle never goes past beat 50, it ends after 50
\* beats (every agent asked 50 times) with completionReason max_beats, and
\* the moderator note of each beat follows the thresholds taken against
\* 50 (none up to beat 30, past midpoint for 31..40, wrap up from 41).
C22_DefaultMaxBeats ==
    config.maxBeats = {} =>
        /\ beat <= 50
        /\ pc = "done" =>
             /\ beat = 50
             /\ result # <<>>
             /\ result.metadata.completionReason = "max_beats"
             /\ result.metadata.totalBeats = 50
             /\ \A i \in AgentIds : callCount[i] = 50
        /\ update # <<>> =>
             update.moderatorNote =
                 IF update.beat <= 30 THEN Null
                 ELSE IF update.beat <= 40 THEN PastMidpointNote
                 ELSE WrapUpNote

C22_Witness ==
    /\ config.maxBeats = {}
    /\ pc = "done"
    /\ result # <<>>
    /\ result.metadata.completionReason = "max_beats"
    /\ result.metadata.totalBeats = 50
    /\ update # <<>>
    /\ update.beat = 49
    /\ update.moderatorNote = WrapUpNote



\* ------------------------------------------------------------------- C25

\* The transcript the Beat Context of the running beat was built from:
\* nothing is appended between the fan-out and the collection.
ContextIsCurrent == pc = "await" /\ update # <<>>

\* min(10, n)
WindowSize(n) == IF n < 10 THEN n ELSE 10

\* C25: the Beat Context built for a beat renders exactly the last
\* min(10, n) entries of the transcript of length n, in transcript order,
\* and its lastEvent is the final entry when n > 0 and null when n = 0.
C25_RecentWindow ==
    ContextIsCurrent =>
        LET n == Len(transcript)
            m == WindowSize(n)
        IN  /\ Len(update.transcript) = m
            /\ \A j \in 1..m :
                 update.transcript[j] = formatEntry(transcript[n - m + j])
            /\ update.lastEvent = IF n = 0 THEN <<>> ELSE <<transcript[n]>>

\* A context built from more than ten entries whose window differs from
\* the head of the transcript.
C25_Witness ==
    /\ ContextIsCurrent
    /\ Len(transcript) > 10
    /\ Len(update.transcript) = 10
    /\ update.transcript[1] # formatEntry(transcript[1])
    /\ update.lastEvent = <<transcript[Len(transcript)]>>

\* ------------------------------------------------------------------- C26

\* C26: the moderator note of a beat depends only on beat/maxBeats: absent
\* while the ratio is below 60%, the past-midpoint note when it is between
\* 60% and 80%, the wrap-up note when it is beyond 80%; for maxBeats = 10
\* there is no note for beats 0-5 and the wrap-up note for beat 9.
C26_NoteThresholds ==
    update # <<>> =>
        LET b == update.beat
            m == EffectiveMaxBeats(config)
        IN  /\ 10 * b < 6 * m => update.moderatorNote = Null
            /\ (6 * m < 10 * b /\ 10 * b < 8 * m) =>
                 update.moderatorNote = PastMidpointNote
            /\ 8 * m < 10 * b => update.moderatorNote = WrapUpNote
            /\ (m = 10 /\ b <= 5) => update.moderatorNote = Null
            /\ (m = 10 /\ b = 9) => update.moderatorNote = WrapUpNote

\* The last beat of a run of ten: 90% of the way, the wrap-up note.
C26_Witness ==
    /\ update # <<>>
    /\ config.maxBeats = {10}
    /\ update.beat = 9
    /\ update.moderatorNote = WrapUpNote


\* ------------------------------------------------------------------- C23

\* The directory <baseDir>/<metadata.name> of the call that returned.
OutputDir == Append(writer.baseDir, writer.result.metadata.name)

IsFile(path) == path \in DOMAIN disk /\ disk[path].kind = "file"

\* C23 as stated: after writeSceneOutputs returns, transcript.txt and
\* metadata.json of the result are in <baseDir>/<metadata.name>, that
\* directory is the value returned, and debug.log exists there if and only
\* if a debug log was provided, with the provided log as its content.  It
\* fails when an earlier call left a debug.log in the directory and this
\* call provides none, and when the log provided is the empty string.
C23_WriteSceneOutputs ==
    writer.pc = "returned" =>
        /\ OutputDir \in DOMAIN disk
        /\ disk[OutputDir].kind = "dir"
        /\ IsFile(Append(OutputDir, "transcript.txt"))
        /\ disk[Append(OutputDir, "transcript.txt")].content =
               formatTranscriptFile(writer.result)
        /\ IsFile(Append(OutputDir, "metadata.json"))
        /\ disk[Append(OutputDir, "metadata.json")].content =
               stringifyMetadata(writer.result.metadata)
        /\ writer.returned = <<OutputDir>>
        /\ IsFile(Append(OutputDir, "debug.log")) <=> writer.debugLog # <<>>
        /\ writer.debugLog # <<>> =>
               disk[Append(OutputDir, "debug.log")].content =
                   writer.debugLog[1]



\* ------------------------------------------------------------------- C31

\* The transcript entries agent i contributed in the last beat.
EntriesOf(i) ==
    {k \in 1..Len(transcript) : /\ transcript[k].speaker = agents[i]
                                /\ transcript[k].beat = LastBeat}

\* C31: end to end, an agent whose raw reply in a beat is the empty string
\* contributes no transcript entry for that beat; an agent whose raw reply
\* is non-empty text without a leading bracket contributes exactly one
\* Dialog entry, with action speak; and a reply parsed as anything but
\* silent is appended whether or not the parser attached a warning.
C31_EmptyVersusFreeText ==
    Collected =>
        \A i \in AgentIds :
            calls[i].status = "fulfilled" =>
                LET v == calls[i].value[1]
                IN  /\ v.raw = <<>> => EntriesOf(i) = {}
                    /\ (v.raw # <<>> /\ v.raw[1] # "[") =>
                         /\ Cardinality(EntriesOf(i)) = 1
                         /\ \A k \in EntriesOf(i) :
                              /\ transcript[k].type = "dialog"
                              /\ transcript[k].action = "speak"
                    /\ v.parsed.action # "silent" =>
                         Cardinality(EntriesOf(i)) = 1

\* One beat in which one agent returned nothing and the other free text:
\* both were warned about, only the second is in the transcript.
C31_Witness ==
    /\ Collected
    /\ \E i, j \in AgentIds :
         /\ calls[i].status = "fulfilled"
         /\ calls[j].status = "fulfilled"
         /\ calls[i].value[1].raw = <<>>
         /\ calls[i].value[1].parsed.warning # <<>>
         /\ calls[j].value[1].raw = <<"x", " ", "[", "SILENT", "]">>
         /\ calls[j].value[1].parsed.warning # <<>>
         /\ EntriesOf(i) = {}
         /\ Cardinality(EntriesOf(j)) = 1



\* ------------------------------------------------------------------- C32

C33_ExactlyKBeats ==
    /\ []((pc = "done" /\ ValidConfig /\ ConfiguredMaxBeats >= 0) =>
            /\ \A i \in AgentIds : callCount[i] = ConfiguredMaxBeats
            /\ BeatsBegun = ConfiguredMaxBeats
            /\ result.metadata.totalBeats = ConfiguredMaxBeats)
    /\ [](\A i \in AgentIds :
            callCount[i] > 0 => /\ received[i] # <<>>
                                /\ received[i].beat = callCount[i] - 1
                                /\ received[i].beat < ConfiguredMaxBeats)
    /\ [][\A i \in AgentIds :
            callCount'[i] # callCount[i] =>
                /\ callCount'[i] = callCount[i] + 1
                /\ received'[i].beat = callCount[i]]_vars

\* Two agents were taken through a scene of two beats, the second beat
\* with index 1.
C33_Witness ==
    /\ pc = "done"
    /\ ValidConfig
    /\ ConfiguredMaxBeats = 2
    /\ N = 2
    /\ \A i \in AgentIds : callCount[i] = 2 /\ received[i].beat = 1
    /\ result.metadata.totalBeats = 2



\* ------------------------------------------------------------------- C34

\* The position of a speaker in the agents list.
AgentIndex(name) == CHOOSE i \in AgentIds : agents[i] = name

\* C34: two entries of the same beat whose replies carry equal timestamps
\* stand in the transcript in the order of their agents in the agents
\* list, in whatever order the two calls resolved.
C34_TiesInAgentsOrder ==
    \A k, l \in 1..Len(transcript) :
        (/\ k < l
         /\ transcript[k].beat = transcript[l].beat
         /\ transcript[k].timestamp = transcript[l].timestamp) =>
            AgentIndex(transcript[k].speaker) < AgentIndex(transcript[l].speaker)

\* Three agents replied in one beat: the first two with the same timestamp,
\* the third with an earlier one; the third stands first, the two others
\* follow in agents-list order.
C34_Witness ==
    /\ N = 3
    /\ Len(transcript) = 3
    /\ transcript[1].speaker = agents[3]
    /\ transcript[2].speaker = agents[1]
    /\ transcript[3].speaker = agents[2]
    /\ transcript[1].timestamp < transcript[2].timestamp
    /\ transcript[2].timestamp = transcript[3].timestamp



\* ------------------------------------------------------------------- C35

\* The transcript entries of the last beat.
EntriesOfLastBeat == {k \in 1..Len(transcript) : transcript[k].beat = LastBeat}

\* C35: in each beat every agent contributes at most one transcript entry,
\* the Dialog entries appended in a beat are as many as the agents whose
\* invocation succeeded with a non-silent parsed action, and after b beats
\* with N agents the transcript has at most b * N entries.
C35_OneEntryPerAgentPerBeat ==
    /\ [](Collected =>
            /\ \A i \in AgentIds : Cardinality(EntriesOf(i)) <= 1
            /\ Cardinality(EntriesOfLastBeat) = Cardinality(SpokenCalls)
            /\ \A k \in EntriesOfLastBeat : transcript[k].type = "dialog")
    /\ [](Len(transcript) <= BeatsBegun * N)
    /\ [][pc = "await" /\ pc' = "oracle" =>
            Len(transcript') = Len(transcript) + Cardinality(SpokenCalls)]_vars
    /\ [][~(pc = "await" /\ pc' = "oracle") =>
            Len(transcript') = Len(transcript)]_vars

\* A beat of three agents was collected: one spoke, one was silent, one
\* failed; the beat has one entry.
C35_Witness ==
    /\ Collected
    /\ N = 3
    /\ Cardinality(SpokenCalls) = 1
    /\ Cardinality(SilentCalls) = 1
    /\ Cardinality(RejectedCalls) = 1
    /\ Cardinality(EntriesOfLastBeat) = 1



\* ------------------------------------------------------------------- C36

\* The configuration with the initial speaker taken out.
WithoutInitialSpeaker(c) == [c EXCEPT !.initialSpeaker = Null]

\* C36: config.initialSpeaker has no effect.  Every step of a run is the
\* step the run without an initial speaker takes from the same agents,
\* transcript and replies: validation and the beat limit come out the
\* same, every beat invokes every agent with the context built without
\* the field, the fan-in appends what the replies alone determine, and the
\* run ends with the same transcript, beat count and completion outcome.
C36_InitialSpeakerIgnored ==
    /\ [](/\ validateConfig(config) = validateConfig(WithoutInitialSpeaker(config))
          /\ EffectiveMaxBeats(config) =
                 EffectiveMaxBeats(WithoutInitialSpeaker(config)))
    /\ [][config' = config]_vars
    /\ [][(pc = "loop" /\ pc' = "await") =>
            /\ update' = createUpdate(WithoutInitialSpeaker(config),
                                      transcript, beat)
            /\ \A i \in AgentIds : /\ calls'[i].status = "pending"
                                   /\ callCount'[i] = callCount[i] + 1
                                   /\ received'[i] = update']_vars
    /\ [][(pc = "await" /\ pc' = "oracle") =>
            transcript' = PushEntries(transcript,
                                      FilterDialog(collectResponses(calls)),
                                      agents, beat)]_vars
    /\ [][(pc # "done" /\ pc' = "done") =>
            /\ result'.success
            /\ result'.transcript = formatTranscript(transcript)
            /\ result'.metadata =
                 createMetadata(WithoutInitialSpeaker(config), beat,
                                CompletionReason(beat, EffectiveMaxBeats(
                                    WithoutInitialSpeaker(config))),
                                FALSE)]_vars

\* A run that named its second agent as initial speaker went through two
\* beats in which the first agent spoke as well.
C36_Witness ==
    /\ pc = "done"
    /\ config.initialSpeaker = "bob"
    /\ N = 2
    /\ result.metadata.totalBeats = 2
    /\ \E k \in 1..Len(transcript) :
         transcript[k].beat = 0 /\ transcript[k].speaker = "alice"



\* ------------------------------------------------------------------- C37

\* The outcome C37 describes: validation passed, no agent was invoked, the
\* transcript is empty, and a finished run reports success with max_beats,
\* goalAchieved = false and totalBeats = 0.
SkippedLoopOutcome ==
    /\ ValidConfig
    /\ pc \in {"validate", "loop", "done"}
    /\ \A i \in AgentIds : callCount[i] = 0
    /\ transcript = <<>>
    /\ pc = "done" =>
         /\ result.success
         /\ result.metadata.completionReason = "max_beats"
         /\ result.metadata.goalAchieved = FALSE
         /\ result.metadata.totalBeats = 0

\* C37 as stated: a configuration with a non-empty name, a non-empty
\* prompt and a non-empty participant list but maxBeats <= 0 passes
\* validation and ends with the outcome above.  It fails for a name or a
\* prompt of whitespace only, which is not empty and is rejected.
C37_NonPositiveMaxBeatsAsStated ==
    (/\ ~FalsyString(config.name)
     /\ ~FalsyString(config.prompt)
     /\ config.characters # Undefined
     /\ config.characters # <<>>
     /\ ConfiguredMaxBeats <= 0) => SkippedLoopOutcome

\* C37, amended: a configuration whose name and prompt are not blank (not
\* empty once trimmed) and whose participant list is not empty, with
\* maxBeats <= 0, passes validation: no agent is invoked, the transcript is
\* empty, and the result is success = true with completionReason =
\* max_beats, goalAchieved = false and totalBeats = 0.
C37_NonPositiveMaxBeats ==
    (/\ ~FalsyString(config.name) /\ Trim(config.name) # <<>>
     /\ ~FalsyString(config.prompt) /\ Trim(config.prompt) # <<>>
     /\ config.characters # Undefined
     /\ config.characters # <<>>
     /\ ConfiguredMaxBeats <= 0) => SkippedLoopOutcome

\* A run with two agents and maxBeats = -1 ended without a beat.
C37_Witness ==
    /\ pc = "done"
    /\ ConfiguredMaxBeats = -1
    /\ N = 2
    /\ result.success
    /\ result.metadata.completionReason = "max_beats"
    /\ result.metadata.totalBeats = 0
    /\ \A i \in AgentIds : callCount[i] = 0



\* ------------------------------------------------------------------- C38

\* C38: a beat in which every successful reply is silent, or every
\* invocation fails, leaves the transcript as it was, and the context of
\* the next beat has the rendered recent window, the lastEvent and the
\* scene context of the context before it; the beat index is one higher.
C38_SilentBeatKeepsContext ==
    /\ [][(pc = "await" /\ pc' = "oracle" /\ SpokenCalls = {}) =>
            transcript' = transcript]_vars
    /\ [][(pc = "loop" /\ pc' = "await" /\ update # <<>> /\ SpokenCalls = {}) =>
            /\ update'.transcript = update.transcript
            /\ update'.lastEvent = update.lastEvent
            /\ update'.sceneContext = update.sceneContext
            /\ update'.beat = update.beat + 1]_vars

\* The third beat of one agent was begun after a beat with a line and a
\* beat without: its context still ends with the line of beat 0.
C38_Witness ==
    /\ pc = "await"
    /\ update # <<>>
    /\ update.beat = 2
    /\ Len(transcript) = 1
    /\ transcript[1].beat = 0
    /\ update.lastEvent = <<transcript[1]>>
    /\ Len(update.transcript) = 1



\* ------------------------------------------------------------------- C39

\* C39 as stated: every Parsed Event parseResponse returns with an action
\* other than silent has a non-empty tone string.  It fails for a TONE
\* field with nothing behind it: the tone extracted is the empty string.
C39_ToneNeverEmpty ==
    (parsed # <<>> /\ ParsedValue.action # "silent") => ParsedValue.tone # <<>>



\* ------------------------------------------------------------------- C40

\* The bracket body of the reply has INTERRUPT and no 'INTERRUPT after'.
InterruptWithoutAfter ==
    /\ Includes(BodyOf(raw), <<"INTERRUPT">>)
    /\ ~Includes(BodyOf(raw), InterruptAfter)

\* The bracket body of the reply has no TONE field.
NoToneField == FieldMatch(BodyOf(raw), "TONE:", {",", "]", "*"}) = <<>>

\* Nothing but whitespace follows the bracket of the reply.
NoContent == Trim(BracketMatch(raw)[1].afterBracket) = <<>>

\* C40: a Parsed Event carries at most one warning, and the warnings of
\* the strict tier have a fixed precedence: with INTERRUPT without an
\* 'after' phrase and no TONE field the warning kept is the missing-TONE
\* one; with a TONE field it is the interrupt one; and the empty-content
\* warning is attached only when neither of the two was set.
C40_WarningPrecedence ==
    /\ parsed # <<>> => Len(ParsedValue.warning) <= 1
    /\ ParsedStrictly =>
         /\ (InterruptWithoutAfter /\ NoToneField) =>
                ParsedValue.warning = <<WarnTone>>
         /\ (InterruptWithoutAfter /\ ~NoToneField) =>
                ParsedValue.warning = <<WarnInterrupt>>
         /\ ParsedValue.warning = <<WarnContent>> <=>
                /\ NoContent
                /\ ParsedValue.action \in {"speak", "interrupt"}
                /\ ~InterruptWithoutAfter
                /\ ~NoToneField

\* A bare [INTERRUPT]: no phrase, no tone, no content; the warning is the
\* missing-TONE one.
C40_Witness ==
    /\ ParsedStrictly
    /\ InterruptWithoutAfter
    /\ NoToneField
    /\ NoContent
    /\ ParsedValue.action = "interrupt"
    /\ ParsedValue.warning = <<WarnTone>>

====
